---- MODULE Spec2Model ----
(***************************************************************************)
(* Model of the monitoring and cache core of cistern (package cache) and   *)
(* of the nullable-time helpers of package utils.                           *)
(*                                                                         *)
(* Four specifications share the variables of this module:                 *)
(*   Spec           the Cache maps under SavePipeline and SaveCommit       *)
(*   SpecCommit     SaveCommit on commits that carry branch and tag lists  *)
(*   SpecAgg        the pure functions State.merge and Aggregate           *)
(*   SpecBroadcast  the goroutines of Cache.broadcastMonitorPipeline       *)
(***************************************************************************)
EXTENDS Integers, Sequences, FiniteSets, TLC

(***************************************************************************)
(* Bounds of the model                                                     *)
(***************************************************************************)
\* timestamps are 1..MaxTime; 0 is the zero time.Time of an invalid NullTime
MaxTime == 2
\* longest list of steps handed to Aggregate
MaxSteps == 3
\* longest branch list and tag list of a commit handed to SaveCommit
MaxRefNames == 2
\* largest number of CI providers registered in the cache
MaxProviders == 3
\* largest number of source providers registered in the cache
MaxSourceProviders == 2
\* largest number of pipelines BuildFromURL returns to one monitorPipeline
MaxFetches == 3
\* largest number of commits sent on commitc during one MonitorPipelines
MaxCommits == 2
\* longest list of status URLs of a commit
MaxStatuses == 2
\* largest number of calls of RefStatuses made by one monitorRefStatuses
MaxPolls == 3
\* largest number of pipelines saved by the pollers of one status URL
MaxTaskSaves == 1
\* largest number of operations one goroutine runs on the cache
MaxOperations == 2
\* largest number of calls made on the cache before two pollers save, and
\* between their saves and the save that comes later
MaxOtherCalls == 1
\* largest number of calls made on the cache by the callers that keep what
\* it returned
MaxCalls == 5

Times == 1..MaxTime

(***************************************************************************)
(* cache.go: State                                                         *)
(***************************************************************************)
Unknown == ""
Pending == "pending"
Running == "running"
Passed == "passed"
Failed == "failed"
Canceled == "canceled"
Manual == "manual"
Skipped == "skipped"

States == {Unknown, Pending, Running, Passed, Failed, Canceled, Manual, Skipped}

IsActive(s) == s = Pending \/ s = Running

(***************************************************************************)
(* Go maps: a map is a function whose DOMAIN is the set of keys present    *)
(***************************************************************************)
EmptyMap == [x \in {} |-> 0]

\* the holder of a mutex that is unlocked
NoGoroutine == ""

MapPut(m, k, v) == [x \in (DOMAIN m) \cup {k} |-> IF x = k THEN v ELSE m[x]]

MapDelete(m, k) == [x \in (DOMAIN m) \ {k} |-> m[x]]

(***************************************************************************)
(* cache.go: errors                                                        *)
(***************************************************************************)
\* an error value; provider is the id of the provider named by a wrapped error
Error(msg) == [msg |-> msg, provider |-> 0]

NilErr == Error("nil")
ErrObsoleteBuild == Error("build to save is older than current build in cache")
ErrUnknownPipelineURL == Error("unknown pipeline URL")
ContextCanceled == Error("context canceled")
\* any other error a provider call returns
ErrProvider == Error("provider failure")
ErrUnknownRepositoryURL == Error("unknown repository URL")
ErrUnknownGitReference == Error("unknown git reference")
\* any other error GitOriginURL returns
ErrGit == Error("git failure")

(***************************************************************************)
(* State of the program                                                    *)
(***************************************************************************)
VARIABLES
    \* Cache
    pipelineByKey,   \* map[PipelineKey]*Pipeline
    pipelineByRef,   \* map[string]map[PipelineKey]*Pipeline
    commitsByRef,    \* map[string]Commit
    \* observation of the calls made on the cache
    lastCall,        \* the most recent call: operation, arguments, returned error,
                     \* and whether it repeats the call before it
    calls,           \* parity of the number of calls made so far
    \* Aggregate and State.merge: the arguments and what was returned
    steps,           \* []Step handed to Aggregate
    mergeArgs,       \* the receiver and the argument of State.merge
    result,          \* the function applied last and the value it returned
    \* Cache.broadcastMonitorPipeline
    ciProvidersByID, \* the ids of the CI providers of the cache
    pollers,         \* per provider: the goroutine started at lines 602-615
    ctxDone,         \* whether the context handed to the pollers is done
    errcClosed,      \* whether errc was closed (lines 618-621)
    broadcast,       \* the calling goroutine: its locals err and n, and what it returned
    \* Cache.broadcastMonitorRefStatus
    sourceProviders, \* the indices of the source providers of the cache
    monitors,        \* per source provider: the goroutine started at lines 673-679
    refStatus,       \* the calling goroutine: its locals, its context, errc and commitc
    \* Cache.monitorPipeline
    poller,          \* the goroutine running monitorPipeline: position, context, the
                     \* pipelines fetched, the errors of its saves, what it returned
    updates,         \* the channel updates: senders blocked on it, values received
    \* Cache.MonitorPipelines
    mon,             \* the calling goroutine (lines 781-790), its context, errc and
                     \* commitc, the map urls and the goroutine ranging over commitc
    stream,          \* the goroutine running broadcastMonitorRefStatus (lines 732-738)
    tasks,           \* per status URL: the goroutine running broadcastMonitorPipeline
    ticks,           \* per origin (the commits, the pollers of a URL): the goroutines
                     \* sending on updates and the ticks received
    \* Cache.mutex
    mutex,           \* the goroutine holding c.mutex, NoGoroutine when it is unlocked
    goroutines,      \* per goroutine: the instructions left of the operation it
                     \* runs, the instruction it ran last, the operations it started
    \* two pollers saving the same pipeline
    race,            \* the two pipelines and their refs, who saved, the calls made
                     \* before and after, the error of the save that came later
    \* the values sent on the channel updates
    timeline,        \* the clock, per goroutine sending a tick its position and the
                     \* time it read, and the times received in their order
    \* the memory behind the slices of the commits
    memory,          \* the backing arrays, the commits the callers built, the commits
                     \* of commitsByRef with their slices, and the values returned
    \* taskFromPipeline
    projection,      \* the pipeline handed to taskFromPipeline and what came of it
    \* tui.HierarchicalTable
    table,           \* the forest with its traversable flags, the height, the page
                     \* index, the cursor index, and the operation applied last
    \* monitorRefStatuses
    refMonitor,      \* one goroutine running monitorRefStatuses: its position, its
                     \* local commit, the backoff, what it sent and its last poll
    \* the calls of SaveCommit
    lastSaved        \* per ref: the sha handed to the last SaveCommit, whether the
                     \* SaveCommit before had the same, whether pipelines were dropped

cacheVars == <<pipelineByKey, pipelineByRef, commitsByRef, lastCall, calls>>

aggVars == <<steps, mergeArgs, result>>

broadcastVars == <<ciProvidersByID, pollers, ctxDone, errcClosed, broadcast>>

refVars == <<sourceProviders, monitors, refStatus>>

\* the state of the monitoring functions other than broadcastMonitorPipeline
pollVars == <<poller, updates>>

monVars == <<mon, stream, tasks, ticks>>

lockVars == <<mutex, goroutines>>

\* one monitorRefStatuses followed poll by poll, the commits saved ref by ref
statusVars == <<refMonitor, lastSaved>>

\* the state of the views built on the cache, and of what is observed alone
viewVars == <<projection, table, statusVars>>

\* the state of the scenarios run on the cache
scenarioVars == <<race, timeline, memory, viewVars>>

monitoringVars == <<refVars, pollVars, monVars, lockVars, scenarioVars>>

vars == <<cacheVars, aggVars, broadcastVars, monitoringVars>>

(***************************************************************************)
(* cache.go: Pipeline, PipelineKey, Commit                                 *)
(***************************************************************************)
Hosts == {"gitlab.com", "travis-ci.org"}
IDs == {"42"}
Refs == {"master", "v1.0"}
Shas == {"4cc9a4b", "a24840c"}

PipelineKeys == [ProviderHost : Hosts, ID : IDs]

\* Pipeline.Key()
Key(p) == [ProviderHost |-> p.providerHost, ID |-> p.ID]

\* time.Time.After
After(t, u) == t > u

\* time.Time.Before
Before(t, u) == t < u

\* The pipelines handed to SavePipeline: the pipeline of the first host in an
\* active and in a finished state at every time, and the pipeline of the second
\* host, which shares the ref indices with it, in one finished version.
PipelineStates == {Running, Passed}
PipelineInputs ==
    [providerHost : {"gitlab.com"}, ID : IDs, State : PipelineStates, UpdatedAt : Times]
    \cup [providerHost : {"travis-ci.org"}, ID : IDs, State : {Failed}, UpdatedAt : {1}]

NoPipeline == [providerHost |-> "", ID |-> "", State |-> Unknown, UpdatedAt |-> 0]
NoCommit == [Sha |-> "", Branches |-> <<>>, Tags |-> <<>>]

(***************************************************************************)
(* Pointers: &p is a fresh object holding a copy of p.  The pointee is     *)
(* never written after SavePipeline stored it, so a pointer carries its    *)
(* value, and two pointers are the same pointer when they have the same    *)
(* value and the same serial.  A fresh pointer takes the least serial that *)
(* no live pointer of the cache with the same value has.                   *)
(***************************************************************************)
LivePointers ==
    {pipelineByKey[k] : k \in DOMAIN pipelineByKey}
    \cup UNION {{pipelineByRef[r][k] : k \in DOMAIN pipelineByRef[r]} :
                r \in DOMAIN pipelineByRef}

IsFresh(ptr) == ptr \notin LivePointers

AddressOf(p) ==
    LET n == Cardinality(LivePointers) + 1
        serial == CHOOSE a \in 1..n :
                      /\ IsFresh([addr |-> a, val |-> p])
                      /\ \A b \in 1..(a - 1) : ~IsFresh([addr |-> b, val |-> p])
    IN [addr |-> serial, val |-> p]

Maps == [pipelineByKey |-> pipelineByKey,
         pipelineByRef |-> pipelineByRef,
         commitsByRef |-> commitsByRef]

Flip(b) == 1 - b

(***************************************************************************)
(* cache.go: Cache.SavePipeline                                            *)
(***************************************************************************)
Called(op, ref, p, commit, err) ==
    /\ lastCall' = [op |-> op, ref |-> ref, pipeline |-> p, commit |-> commit, err |-> err,
                    repeat |-> /\ lastCall.op = op
                               /\ lastCall.ref = ref
                               /\ lastCall.pipeline = p
                               /\ lastCall.commit = commit]
    /\ calls' = Flip(calls)

\* IsObsolete only when the build in cache is strictly more recent
IsObsoleteOnlyWhenOlder(p) ==
    /\ Key(p) \in DOMAIN pipelineByKey
    /\ ~IsActive(p.State)
    /\ After(pipelineByKey[Key(p)].val.UpdatedAt, p.UpdatedAt)

\* IsObsolete without the test of the state
IsObsoleteEvenIfActive(p) ==
    /\ Key(p) \in DOMAIN pipelineByKey
    /\ ~After(p.UpdatedAt, pipelineByKey[Key(p)].val.UpdatedAt)

\* IsObsolete with the comparison of the two UpdatedAt turned around
IsObsoleteWhenOlderInCache(p) ==
    /\ Key(p) \in DOMAIN pipelineByKey
    /\ ~IsActive(p.State)
    /\ ~After(pipelineByKey[Key(p)].val.UpdatedAt, p.UpdatedAt)

\* line 444: the build to save does not replace the build in cache
IsObsolete(p) ==
    /\ Key(p) \in DOMAIN pipelineByKey
    /\ ~IsActive(p.State)
    /\ ~After(p.UpdatedAt, pipelineByKey[Key(p)].val.UpdatedAt)

\* lines 446-448 and 458-460: c.pipelineByRef[ref] exists afterwards
WithRef(ref) ==
    IF ref \in DOMAIN pipelineByRef
    THEN pipelineByRef
    ELSE MapPut(pipelineByRef, ref, EmptyMap)

SavePipeline(ref, p) ==
    LET k == Key(p) IN
    IF IsObsolete(p)
    THEN LET existingBuild == pipelineByKey[k]
             byRef == WithRef(ref)
         IN IF k \in DOMAIN byRef[ref] /\ byRef[ref][k] = existingBuild
            THEN /\ pipelineByRef' = byRef
                 /\ UNCHANGED <<pipelineByKey, commitsByRef>>
                 /\ Called("SavePipeline", ref, p, NoCommit, ErrObsoleteBuild)
            ELSE /\ pipelineByRef' = MapPut(byRef, ref, MapPut(byRef[ref], k, existingBuild))
                 /\ UNCHANGED <<pipelineByKey, commitsByRef>>
                 /\ Called("SavePipeline", ref, p, NoCommit, NilErr)
    ELSE LET ptr == AddressOf(p)
             byRef == WithRef(ref)
         IN /\ pipelineByKey' = MapPut(pipelineByKey, k, ptr)
            /\ pipelineByRef' = MapPut(byRef, ref, MapPut(byRef[ref], k, ptr))
            /\ UNCHANGED commitsByRef
            /\ Called("SavePipeline", ref, p, NoCommit, NilErr)

(***************************************************************************)
(* cache.go: Cache.SaveCommit                                              *)
(***************************************************************************)
Elems(s) == {s[i] : i \in 1..Len(s)}

\* lines 477-485 and 487-496: the set of previous names is built once, before
\* the loop, and each name of the saved commit that is not in it is appended
RECURSIVE AppendMissing(_, _, _)
AppendMissing(list, previous, names) ==
    IF names = <<>>
    THEN list
    ELSE AppendMissing(IF Head(names) \in previous THEN list ELSE Append(list, Head(names)),
                       previous, Tail(names))

MergeNames(previousNames, names) ==
    AppendMissing(previousNames, Elems(previousNames), names)

\* ShaDiffers with the comparison inverted
ShaIsSame(previousCommit, commit) == previousCommit.Sha = commit.Sha

\* line 473: the ref was moved to another commit
ShaDiffers(previousCommit, commit) == previousCommit.Sha # commit.Sha

SaveCommit(ref, commit) ==
    /\ IF ref \in DOMAIN commitsByRef
       THEN LET previousCommit == commitsByRef[ref]
                merged == [previousCommit EXCEPT
                              !.Branches = MergeNames(previousCommit.Branches, commit.Branches),
                              !.Tags = MergeNames(previousCommit.Tags, commit.Tags)]
            IN /\ pipelineByRef' = IF ShaDiffers(previousCommit, commit)
                                   THEN MapDelete(pipelineByRef, ref)
                                   ELSE pipelineByRef
               /\ commitsByRef' = MapPut(commitsByRef, ref, merged)
       ELSE /\ commitsByRef' = MapPut(commitsByRef, ref, commit)
            /\ UNCHANGED pipelineByRef
    /\ UNCHANGED pipelineByKey
    /\ Called("SaveCommit", ref, NoPipeline, commit, NilErr)

(***************************************************************************)
(* cache.go: read operations                                               *)
(***************************************************************************)
\* Cache.Pipeline: the value and whether it exists
PipelineIn(m, key) ==
    IF key \in DOMAIN m.pipelineByKey
    THEN [pipeline |-> m.pipelineByKey[key].val, exists |-> TRUE]
    ELSE [pipeline |-> NoPipeline, exists |-> FALSE]

Pipeline(key) == PipelineIn(Maps, key)

\* Cache.PipelinesByRef: the values, in no particular order
PipelinesByRefIn(m, ref) ==
    IF ref \in DOMAIN m.pipelineByRef
    THEN {m.pipelineByRef[ref][k].val : k \in DOMAIN m.pipelineByRef[ref]}
    ELSE {}

PipelinesByRef(ref) == PipelinesByRefIn(Maps, ref)

\* Cache.Commit
Commit(ref) ==
    IF ref \in DOMAIN commitsByRef
    THEN [commit |-> commitsByRef[ref], exists |-> TRUE]
    ELSE [commit |-> NoCommit, exists |-> FALSE]

(***************************************************************************)
(* utils.go: NullTime, NullDuration                                        *)
(***************************************************************************)
\* NullTime{}
NoTime == [Valid |-> FALSE, Time |-> 0]

\* NullDuration{}
NoDuration == [Valid |-> FALSE, Duration |-> 0]

SomeTime(t) == [Valid |-> TRUE, Time |-> t]

NullTimes == {NoTime} \cup {SomeTime(t) : t \in Times}

\* MinStep with After in the place of Before
MinStepKeepingLater(acc, t) ==
    IF acc.Valid
    THEN IF t.Valid /\ After(t.Time, acc.Time) THEN t ELSE acc
    ELSE t

\* the loop body of MinNullTime
MinStep(acc, t) ==
    IF acc.Valid
    THEN IF t.Valid /\ Before(t.Time, acc.Time) THEN t ELSE acc
    ELSE t

\* the loop body of MaxNullTime
MaxStep(acc, t) ==
    IF acc.Valid
    THEN IF t.Valid /\ After(t.Time, acc.Time) THEN t ELSE acc
    ELSE t

RECURSIVE MinNullTimeFrom(_, _)
MinNullTimeFrom(acc, times) ==
    IF times = <<>> THEN acc ELSE MinNullTimeFrom(MinStep(acc, Head(times)), Tail(times))

RECURSIVE MaxNullTimeFrom(_, _)
MaxNullTimeFrom(acc, times) ==
    IF times = <<>> THEN acc ELSE MaxNullTimeFrom(MaxStep(acc, Head(times)), Tail(times))

MinNullTime(times) == MinNullTimeFrom(NoTime, times)

MaxNullTime(times) == MaxNullTimeFrom(NoTime, times)

\* Time.Sub is computed whether or not the two times are valid
NullSub(after, before) ==
    [Valid |-> after.Valid /\ before.Valid, Duration |-> after.Time - before.Time]

(***************************************************************************)
(* cache.go: statePrecedence, State.merge, Aggregate                       *)
(***************************************************************************)
statePrecedence(s) ==
    CASE s = Unknown -> 80
      [] s = Running -> 70
      [] s = Pending -> 60
      [] s = Canceled -> 50
      [] s = Failed -> 40
      [] s = Passed -> 30
      [] s = Skipped -> 20
      [] s = Manual -> 10
      [] OTHER -> 0

\* merge with the comparison turned around
mergeKeepingLower(s, other) ==
    IF statePrecedence(s) < statePrecedence(other) THEN s ELSE other

\* s.merge(other)
merge(s, other) ==
    IF statePrecedence(s) > statePrecedence(other) THEN s ELSE other

\* Step{}
ZeroStep ==
    [State |-> Unknown, AllowFailure |-> FALSE, CreatedAt |-> NoTime,
     StartedAt |-> NoTime, FinishedAt |-> NoTime, UpdatedAt |-> 0,
     Duration |-> NoDuration, Children |-> <<>>]

\* lines 144-148: an allowed failure counts as passed
AllowFailures(p) ==
    IF p.AllowFailure /\ (p.State = Canceled \/ p.State = Failed)
    THEN [p EXCEPT !.State = Passed]
    ELSE p

RECURSIVE Aggregate(_)
Aggregate(list) ==
    CASE Len(list) = 0 -> ZeroStep
      [] Len(list) = 1 -> list[1]
      [] OTHER ->
           LET first == AllowFailures(list[1])
               rest == AllowFailures(Aggregate(Tail(list)))
               StartedAt == MinNullTime(<<first.StartedAt, rest.StartedAt>>)
               FinishedAt == MaxNullTime(<<first.FinishedAt, rest.FinishedAt>>)
           IN [State |-> merge(first.State, rest.State),
               AllowFailure |-> FALSE,
               CreatedAt |-> MinNullTime(<<first.CreatedAt, rest.CreatedAt>>),
               StartedAt |-> StartedAt,
               FinishedAt |-> FinishedAt,
               UpdatedAt |-> IF After(rest.UpdatedAt, first.UpdatedAt)
                             THEN rest.UpdatedAt
                             ELSE first.UpdatedAt,
               Duration |-> NullSub(FinishedAt, StartedAt),
               Children |-> list]

(***************************************************************************)
(* cache.go: Cache.broadcastMonitorPipeline                                *)
(*                                                                         *)
(* One goroutine per CI provider calls monitorPipeline and sends a non-nil *)
(* error on the unbuffered channel errc; one goroutine closes errc once    *)
(* all of them are done; the caller ranges over errc.  What monitorPipeline*)
(* returns is any of the values its code can return.                       *)
(***************************************************************************)
\* line 611: fmt.Errorf("provider %s: monitorPipeline failed with %v (%s)", ...)
Wrap(p, e) == [msg |-> e.msg, provider |-> p]

\* Sent without the provider id around the error
SentAsItIs(p, e) == e

\* lines 609-613: the error the goroutine of provider p sends
Sent(p, e) ==
    IF e # ErrUnknownPipelineURL /\ e # ContextCanceled THEN Wrap(p, e) ELSE e

\* what monitorPipeline can return: ctx.Err() only once the context is done
MonitorPipelineResults ==
    {NilErr, ErrUnknownPipelineURL, ErrProvider}
    \cup (IF ctxDone THEN {ContextCanceled} ELSE {})

\* lines 608-614
MonitorPipelineReturns(p, e) ==
    /\ pollers[p].pc = "monitorPipeline"
    /\ pollers' = [pollers EXCEPT ![p] =
                      [pc |-> IF e # NilErr THEN "send" ELSE "done",
                       returned |-> e,
                       err |-> Sent(p, e)]]
    /\ UNCHANGED <<ciProvidersByID, ctxDone, errcClosed, broadcast>>

\* line 629: ErrUnknownPipelineURL is not reported yet
NotAllUnknown(n) == n < Cardinality(ciProvidersByID)

\* lines 625-639: one iteration of the loop over errc, on the error e
Received(e) ==
    LET n == IF e = ErrUnknownPipelineURL THEN broadcast.n + 1 ELSE broadcast.n
    IN IF e = ErrUnknownPipelineURL /\ NotAllUnknown(n)
       THEN /\ broadcast' = [broadcast EXCEPT !.n = n]
            /\ UNCHANGED ctxDone
       ELSE IF broadcast.err = NilErr
            THEN /\ broadcast' = [broadcast EXCEPT !.n = n, !.err = e]
                 /\ ctxDone' = TRUE
            ELSE /\ broadcast' = [broadcast EXCEPT !.n = n]
                 /\ UNCHANGED ctxDone

\* line 613 meets line 625: errc is unbuffered
Receive(p) ==
    /\ pollers[p].pc = "send"
    /\ broadcast.pc = "range"
    /\ pollers' = [pollers EXCEPT ![p].pc = "done"]
    /\ Received(pollers[p].err)
    /\ UNCHANGED <<ciProvidersByID, errcClosed>>

\* lines 618-621
CloseErrc ==
    /\ ~errcClosed
    /\ \A p \in ciProvidersByID : pollers[p].pc = "done"
    /\ errcClosed' = TRUE
    /\ UNCHANGED <<ciProvidersByID, pollers, ctxDone, broadcast>>

\* line 641
Return ==
    /\ errcClosed
    /\ broadcast.pc = "range"
    /\ broadcast' = [broadcast EXCEPT !.pc = "returned"]
    /\ UNCHANGED <<ciProvidersByID, pollers, ctxDone, errcClosed>>

\* the caller of broadcastMonitorPipeline cancels the context it passed
CancelCaller ==
    /\ broadcast.pc = "range"
    /\ ~ctxDone
    /\ ctxDone' = TRUE
    /\ UNCHANGED <<ciProvidersByID, pollers, errcClosed, broadcast>>

(***************************************************************************)
(* Initial states                                                          *)
(***************************************************************************)
NoCall == [op |-> "none", ref |-> "", pipeline |-> NoPipeline, commit |-> NoCommit,
           err |-> NilErr, repeat |-> FALSE]

\* NewCache
InitCache ==
    /\ pipelineByKey = EmptyMap
    /\ pipelineByRef = EmptyMap
    /\ commitsByRef = EmptyMap
    /\ lastCall = NoCall
    /\ calls = 0

NoResult == [op |-> "none", step |-> ZeroStep, state |-> Unknown]

\* nothing is aggregated
IdleAgg ==
    /\ steps = <<>>
    /\ mergeArgs = <<Unknown, Unknown>>
    /\ result = NoResult

\* no broadcast is running
IdleBroadcast ==
    /\ ciProvidersByID = {}
    /\ pollers = EmptyMap
    /\ ctxDone = FALSE
    /\ errcClosed = FALSE
    /\ broadcast = [pc |-> "idle", err |-> NilErr, n |-> 0]

\* no broadcastMonitorRefStatus is running
IdleRefStatus ==
    /\ sourceProviders = {}
    /\ monitors = EmptyMap
    /\ refStatus = [pc |-> "idle", err |-> NilErr, n |-> 0, canceled |-> FALSE,
                    repositoryURL |-> "", ref |-> "", ctxDone |-> FALSE,
                    callerDone |-> FALSE, errcClosed |-> FALSE, commits |-> {}]

\* no monitorPipeline is running
IdlePoller ==
    /\ poller = [pc |-> "idle", ctxDone |-> FALSE, fetches |-> <<>>, saves |-> <<>>,
                 backoff |-> 0, waited |-> <<>>,
                 pipeline |-> NoPipeline, err |-> NilErr]
    /\ updates = [sending |-> 0, received |-> 0]

\* no MonitorPipelines is running
IdleMonitor ==
    /\ mon = [pc |-> "idle", err |-> NilErr, ctxDone |-> FALSE,
              errcClosed |-> FALSE, commitcClosed |-> FALSE, urls |-> {},
              skipped |-> 0, consumer |-> "idle"]
    /\ stream = [pc |-> "idle", commit |-> NoCommit, statuses |-> <<>>, err |-> NilErr,
                 sent |-> 0]
    /\ tasks = EmptyMap
    /\ ticks = EmptyMap

\* no goroutine uses the mutex
IdleLocks ==
    /\ mutex = NoGoroutine
    /\ goroutines = EmptyMap

\* no pollers race
IdleRace == race = [pc |-> "idle"]

\* no goroutine sends a tick
IdleTimeline == timeline = [now |-> 0, senders |-> EmptyMap, received |-> <<>>]

\* nothing was allocated
IdleMemory ==
    memory = [arrays |-> <<>>, held |-> <<>>, stored |-> EmptyMap, returned |-> {},
              calls |-> 0]

\* nothing is projected
IdleProjection == projection = [pc |-> "idle"]

\* no table
IdleTable == table = [pc |-> "idle"]

\* no monitorRefStatuses is followed, no SaveCommit either
IdleStatuses == refMonitor = [pc |-> "idle"] /\ lastSaved = EmptyMap

IdleViews == IdleProjection /\ IdleTable /\ IdleStatuses

IdleScenarios == IdleRace /\ IdleTimeline /\ IdleMemory /\ IdleViews

IdleMonitoring == IdleRefStatus /\ IdlePoller /\ IdleMonitor /\ IdleLocks /\ IdleScenarios

(***************************************************************************)
(* Spec: the cache under any sequence of SavePipeline and SaveCommit       *)
(***************************************************************************)
\* the commits of Spec carry no branch and no tag
CommitInputs == [Sha : Shas, Branches : {<<>>}, Tags : {<<>>}]

Init == InitCache /\ IdleAgg /\ IdleBroadcast /\ IdleMonitoring

DoSavePipeline ==
    /\ \E ref \in Refs, p \in PipelineInputs : SavePipeline(ref, p)
    /\ UNCHANGED <<aggVars, broadcastVars, monitoringVars>>

DoSaveCommit ==
    /\ \E ref \in Refs, c \in CommitInputs : SaveCommit(ref, c)
    /\ UNCHANGED <<aggVars, broadcastVars, monitoringVars>>

Next ==
    \/ DoSavePipeline
    \/ DoSaveCommit

Spec == Init /\ [][Next]_vars

(***************************************************************************)
(* SpecCommit: one ref, commits with branch and tag lists                  *)
(***************************************************************************)
BranchNames == {"master", "dev"}
TagNames == {"v1.0"}

ListsOf(S, n) == UNION {[1..m -> S] : m \in 0..n}

NamedCommitInputs ==
    [Sha : Shas,
     Branches : ListsOf(BranchNames, MaxRefNames),
     Tags : ListsOf(TagNames, MaxRefNames)]

InitCommit == Init

DoSaveNamedCommit ==
    /\ \E c \in NamedCommitInputs : SaveCommit("master", c)
    /\ UNCHANGED <<aggVars, broadcastVars, monitoringVars>>

DoSaveOnePipeline ==
    /\ \E p \in PipelineInputs : p.State = Failed /\ SavePipeline("master", p)
    /\ UNCHANGED <<aggVars, broadcastVars, monitoringVars>>

NextCommit ==
    \/ DoSaveNamedCommit
    \/ DoSaveOnePipeline

SpecCommit == InitCommit /\ [][NextCommit]_vars

(***************************************************************************)
(* SpecAgg: State.merge on every pair of states, Aggregate on every list   *)
(* of at most MaxSteps steps                                               *)
(***************************************************************************)
\* steps that differ by their state and their allow_failure flag
StateSteps ==
    {[ZeroStep EXCEPT !.State = s, !.AllowFailure = a] : s \in States, a \in BOOLEAN}

\* the durations a provider gives a step: none, or finished - started
DurationsOf(started, finished) ==
    {NoDuration}
    \cup (IF started.Valid /\ finished.Valid THEN {NullSub(finished, started)} ELSE {})

\* passed steps that differ by their times; none finishes before it starts
TimedSteps ==
    UNION {{[ZeroStep EXCEPT !.State = Passed, !.StartedAt = tf[1], !.FinishedAt = tf[2],
                             !.Duration = d] : d \in DurationsOf(tf[1], tf[2])} :
           tf \in {x \in NullTimes \X NullTimes :
                      (x[1].Valid /\ x[2].Valid) => x[2].Time >= x[1].Time}}

InitAgg ==
    /\ InitCache
    /\ IdleBroadcast
    /\ IdleMonitoring
    /\ result = NoResult
    /\ \/ /\ steps \in ListsOf(StateSteps, MaxSteps) \cup ListsOf(TimedSteps, MaxSteps)
          /\ mergeArgs = <<Unknown, Unknown>>
       \/ /\ steps = <<>>
          /\ mergeArgs \in States \X States

DoAggregate ==
    /\ result' = [op |-> "Aggregate", step |-> Aggregate(steps), state |-> Unknown]
    /\ UNCHANGED <<steps, mergeArgs, cacheVars, broadcastVars, monitoringVars>>

DoMerge ==
    /\ result' = [op |-> "merge", step |-> ZeroStep,
                  state |-> merge(mergeArgs[1], mergeArgs[2])]
    /\ UNCHANGED <<steps, mergeArgs, cacheVars, broadcastVars, monitoringVars>>

NextAgg ==
    \/ DoAggregate
    \/ DoMerge

SpecAgg == InitAgg /\ [][NextAgg]_vars

(***************************************************************************)
(* SpecBroadcast: one call of broadcastMonitorPipeline on a cache with     *)
(* one to MaxProviders CI providers                                        *)
(***************************************************************************)
InitBroadcast ==
    /\ InitCache
    /\ IdleAgg
    /\ IdleMonitoring
    /\ ciProvidersByID \in {1..k : k \in 0..MaxProviders}
    /\ pollers = [p \in ciProvidersByID |->
                     [pc |-> "monitorPipeline", returned |-> NilErr, err |-> NilErr]]
    /\ ctxDone = FALSE
    /\ errcClosed = FALSE
    /\ broadcast = [pc |-> "range", err |-> NilErr, n |-> 0]

DoMonitorPipelineReturns ==
    /\ \E p \in ciProvidersByID, e \in MonitorPipelineResults : MonitorPipelineReturns(p, e)
    /\ UNCHANGED <<cacheVars, aggVars, monitoringVars>>

DoReceive ==
    /\ \E p \in ciProvidersByID : Receive(p)
    /\ UNCHANGED <<cacheVars, aggVars, monitoringVars>>

DoCloseErrc == CloseErrc /\ UNCHANGED <<cacheVars, aggVars, monitoringVars>>

DoReturn == Return /\ UNCHANGED <<cacheVars, aggVars, monitoringVars>>

DoCancelCaller == CancelCaller /\ UNCHANGED <<cacheVars, aggVars, monitoringVars>>

NextBroadcast ==
    \/ DoMonitorPipelineReturns
    \/ DoReceive
    \/ DoCloseErrc
    \/ DoReturn
    \/ DoCancelCaller

SpecBroadcast == InitBroadcast /\ [][NextBroadcast]_vars

(***************************************************************************)
(* Properties of SavePipeline and SaveCommit (Spec, SpecCommit)            *)
(***************************************************************************)
\* a step that is a call of the cache
CallStep == calls' # calls

SavePipelineStep == CallStep /\ lastCall'.op = "SavePipeline"

SaveCommitStep == CallStep /\ lastCall'.op = "SaveCommit"

NotActive(s) == s \notin {"pending", "running"}

UpdatedOf(m, k) == m[k].val.UpdatedAt

\* the index of ref holds, for key k, the very entry the by-key store holds
HeldBy(byKey, byRef, ref, k) ==
    /\ k \in DOMAIN byKey
    /\ ref \in DOMAIN byRef
    /\ k \in DOMAIN byRef[ref]
    /\ byRef[ref][k] = byKey[k]

\* the case of C1: an entry is cached, p is finished and not more recent
C1_Case(p) ==
    /\ Key(p) \in DOMAIN pipelineByKey
    /\ NotActive(p.State)
    /\ p.UpdatedAt <= UpdatedOf(pipelineByKey, Key(p))

C1_Step ==
    LET ref == lastCall'.ref
        p == lastCall'.pipeline
        k == Key(p)
    IN (SavePipelineStep /\ C1_Case(p)) =>
          /\ PipelineIn(Maps', k) = Pipeline(k)
          /\ pipelineByKey'[k] = pipelineByKey[k]
          /\ HeldBy(pipelineByKey, pipelineByRef', ref, k)
          /\ lastCall'.err = ErrObsoleteBuild <=> HeldBy(pipelineByKey, pipelineByRef, ref, k)
          /\ lastCall'.err = NilErr <=> ~HeldBy(pipelineByKey, pipelineByRef, ref, k)

C2_Case(p) ==
    \/ Key(p) \notin DOMAIN pipelineByKey
    \/ ~NotActive(p.State)
    \/ p.UpdatedAt > UpdatedOf(pipelineByKey, Key(p))

C2_Step ==
    LET ref == lastCall'.ref
        p == lastCall'.pipeline
    IN (SavePipelineStep /\ C2_Case(p)) =>
          /\ lastCall'.err = NilErr
          /\ PipelineIn(Maps', Key(p)) = [pipeline |-> p, exists |-> TRUE]
          /\ p \in PipelinesByRefIn(Maps', ref)

C3_Original_Step ==
    SavePipelineStep =>
       \A k \in DOMAIN pipelineByKey :
          /\ k \in DOMAIN pipelineByKey'
          /\ UpdatedOf(pipelineByKey', k) >= UpdatedOf(pipelineByKey, k)

C3_Step ==
    SavePipelineStep =>
       \A k \in DOMAIN pipelineByKey :
          /\ k \in DOMAIN pipelineByKey'
          /\ \/ UpdatedOf(pipelineByKey', k) >= UpdatedOf(pipelineByKey, k)
             \/ k = Key(lastCall'.pipeline) /\ ~NotActive(lastCall'.pipeline.State)

C4_Twice ==
    /\ SavePipelineStep
    /\ lastCall.op = "SavePipeline"
    /\ lastCall'.ref = lastCall.ref
    /\ lastCall'.pipeline = lastCall.pipeline

C4_Original_Step ==
    C4_Twice =>
       /\ lastCall.err = NilErr
       /\ NotActive(lastCall.pipeline.State) =>
             (lastCall'.err = ErrObsoleteBuild /\ Maps' = Maps)
       /\ ~NotActive(lastCall.pipeline.State) => lastCall'.err = NilErr

\* C4 as stated: of two identical SavePipeline calls in a row the first is
\* accepted; the second returns ErrObsoleteBuild and changes no map if p is not
\* active, and is accepted if p is active.
C4_SecondSaveIsObsolete == [][C4_Original_Step]_vars

C4_Step ==
    C4_Twice =>
       /\ NotActive(lastCall.pipeline.State) =>
             /\ lastCall.err \in {NilErr, ErrObsoleteBuild}
             /\ lastCall'.err = ErrObsoleteBuild
             /\ Maps' = Maps
       /\ ~NotActive(lastCall.pipeline.State) =>
             /\ lastCall.err = NilErr
             /\ lastCall'.err = NilErr

\* C4 amended: of two identical SavePipeline calls in a row, both are accepted
\* if p is active; if p is not active the second returns ErrObsoleteBuild and
\* leaves the three maps as the first call left them, whether the first call
\* was accepted or was itself rejected with ErrObsoleteBuild.
C4_SecondSaveIsObsoleteFirstMayBe == [][C4_Step]_vars

\* C4: the call repeats the call before it, with a finished pipeline, and was
\* rejected with ErrObsoleteBuild.
C4_Witness ==
    /\ lastCall.op = "SavePipeline"
    /\ lastCall.repeat
    /\ NotActive(lastCall.pipeline.State)
    /\ lastCall.err = ErrObsoleteBuild
    /\ Pipeline(Key(lastCall.pipeline)).pipeline = lastCall.pipeline

C5_Step ==
    LET ref == lastCall'.ref IN
    /\ (/\ SaveCommitStep
        /\ ref \in DOMAIN commitsByRef
        /\ commitsByRef[ref].Sha # lastCall'.commit.Sha)
          => /\ PipelinesByRefIn(Maps', ref) = {}
             /\ pipelineByKey' = pipelineByKey
             /\ \A k \in PipelineKeys : PipelineIn(Maps', k) = Pipeline(k)
    /\ CallStep => \A k \in DOMAIN pipelineByKey : k \in DOMAIN pipelineByKey'

\* C5: after SaveCommit(ref, c) with a sha that differs from the sha of the commit
\* stored for ref, PipelinesByRef(ref) is empty and the by-key store is unchanged;
\* no operation removes a key from the by-key store.
C5_NewShaDropsRefIndexOnly == [][C5_Step]_vars

\* C5: a commit with another sha than the stored one was saved for a ref; the ref
\* has no pipeline left, and both pipelines are still in the by-key store, one of
\* them held by the other ref.
C5_Witness ==
    /\ lastCall.op = "SaveCommit"
    /\ lastCall.ref \in DOMAIN commitsByRef
    /\ commitsByRef[lastCall.ref].Sha # lastCall.commit.Sha
    /\ PipelinesByRef(lastCall.ref) = {}
    /\ DOMAIN pipelineByKey = PipelineKeys
    /\ \E r \in Refs : PipelinesByRef(r) # {}

NoRepeat(list) == \A i, j \in 1..Len(list) : i # j => list[i] # list[j]

\* the names of a list that are not in seen, each once, in their order of first
\* appearance
RECURSIVE NewNames(_, _)
NewNames(seen, names) ==
    IF names = <<>>
    THEN <<>>
    ELSE IF Head(names) \in seen
         THEN NewNames(seen, Tail(names))
         ELSE <<Head(names)>> \o NewNames(seen \cup {Head(names)}, Tail(names))

C6_Grows(old, new, saved) ==
    /\ new = old \o NewNames(Elems(old), saved)
    /\ NoRepeat(new)

C6_Step ==
    LET ref == lastCall'.ref IN
    (/\ SaveCommitStep
     /\ ref \in DOMAIN commitsByRef
     /\ NoRepeat(commitsByRef[ref].Branches)
     /\ NoRepeat(commitsByRef[ref].Tags))
       => /\ C6_Grows(commitsByRef[ref].Branches, commitsByRef'[ref].Branches,
                      lastCall'.commit.Branches)
          /\ C6_Grows(commitsByRef[ref].Tags, commitsByRef'[ref].Tags,
                      lastCall'.commit.Tags)

\* C6: after each SaveCommit on a ref that has a commit, the branch list and the
\* tag list are the previous list followed by the not yet present names of the
\* saved commit, each once, in their order of first appearance; no list holds
\* the same string twice.
C6_ListsGrowWithoutRepeat == [][C6_Step]_vars

(***************************************************************************)
(* Properties of State.merge and Aggregate (SpecAgg)                       *)
(***************************************************************************)
\* the position of s in an order written from the highest to the lowest
Rank(order, s) == CHOOSE i \in 1..Len(order) : order[i] = s

Higher(order, a, b) == IF Rank(order, a) <= Rank(order, b) THEN a ELSE b

C7_StatedOrder == <<Running, Pending, Canceled, Failed, Passed, Skipped, Manual, Unknown>>

C7_CodeOrder == <<Unknown, Running, Pending, Canceled, Failed, Passed, Skipped, Manual>>

\* C7 as stated: a.merge(b) is the higher of a and b in the order running >
\* pending > canceled > failed > passed > skipped > manual > unknown, so merge is
\* commutative and unknown never wins against another state.
C7_MergeFollowsStatedOrder ==
    result.op = "merge" =>
       /\ result.state = Higher(C7_StatedOrder, mergeArgs[1], mergeArgs[2])
       /\ result.state = merge(mergeArgs[2], mergeArgs[1])
       /\ (mergeArgs[1] # Unknown \/ mergeArgs[2] # Unknown) => result.state # Unknown

\* C7 amended: a.merge(b) is the higher of a and b in the order unknown > running
\* > pending > canceled > failed > passed > skipped > manual, so merge is
\* commutative and unknown wins against every other state.
C7_MergeFollowsCodeOrder ==
    result.op = "merge" =>
       /\ result.state = Higher(C7_CodeOrder, mergeArgs[1], mergeArgs[2])
       /\ result.state = merge(mergeArgs[2], mergeArgs[1])
       /\ (mergeArgs[1] = Unknown \/ mergeArgs[2] = Unknown) => result.state = Unknown

\* C7: passed was merged with unknown and unknown was returned.
C7_Witness ==
    /\ result.op = "merge"
    /\ mergeArgs = <<Passed, Unknown>>
    /\ result.state = Unknown

\* the state of a child once an allowed failure counts as passed
C8_Counted(step) ==
    IF step.AllowFailure /\ step.State \in {Failed, Canceled} THEN Passed ELSE step.State

RECURSIVE C8_Fold(_)
C8_Fold(list) ==
    IF Len(list) = 1
    THEN C8_Counted(list[1])
    ELSE Higher(C7_CodeOrder, C8_Counted(list[1]), C8_Fold(Tail(list)))

\* C8: for every non-empty list of children, a list of one child included, the
\* state of the step Aggregate returns is the precedence fold of the children's
\* states, a failed or canceled child with allow_failure counting as passed.
C8_StateIsFoldOfChildren ==
    (result.op = "Aggregate" /\ Len(steps) >= 1) => result.step.State = C8_Fold(steps)

StartedTimes == {steps[i].StartedAt.Time : i \in {j \in 1..Len(steps) : steps[j].StartedAt.Valid}}

FinishedTimes == {steps[i].FinishedAt.Time : i \in {j \in 1..Len(steps) : steps[j].FinishedAt.Valid}}

Least(S) == CHOOSE x \in S : \A y \in S : x <= y

Greatest(S) == CHOOSE x \in S : \A y \in S : x >= y

\* every child that has both times finishes no earlier than it starts
C9_ChildrenOrdered ==
    \A i \in 1..Len(steps) :
       (steps[i].StartedAt.Valid /\ steps[i].FinishedAt.Valid)
          => steps[i].FinishedAt.Time >= steps[i].StartedAt.Time

C9_MinAndMax ==
    /\ result.step.StartedAt.Valid <=> StartedTimes # {}
    /\ result.step.StartedAt.Valid => result.step.StartedAt.Time = Least(StartedTimes)
    /\ result.step.FinishedAt.Valid <=> FinishedTimes # {}
    /\ result.step.FinishedAt.Valid => result.step.FinishedAt.Time = Greatest(FinishedTimes)

\* C9 as stated, for two or more children: when every child is ordered, the
\* aggregate starts at the least child started, finishes at the greatest child
\* finished and, when it has both, finishes no earlier than it starts with
\* duration = finished - started, never negative.
C9_AggregateTimesOrdered ==
    (result.op = "Aggregate" /\ Len(steps) >= 2 /\ C9_ChildrenOrdered) =>
       /\ C9_MinAndMax
       /\ (result.step.StartedAt.Valid /\ result.step.FinishedAt.Valid) =>
             /\ result.step.FinishedAt.Time >= result.step.StartedAt.Time
             /\ result.step.Duration.Valid
             /\ result.step.Duration.Duration
                   = result.step.FinishedAt.Time - result.step.StartedAt.Time
             /\ result.step.Duration.Duration >= 0

\* C9 amended: when every child is ordered, the aggregate starts at the least
\* child started and finishes at the greatest child finished; for two or more
\* children its duration is present exactly when both are and is finished -
\* started; it finishes no earlier than it starts, with a duration >= 0, when
\* some child has both times; a single child is returned as it is.
C9_AggregateTimesMinMax ==
    (result.op = "Aggregate" /\ C9_ChildrenOrdered) =>
       /\ C9_MinAndMax
       /\ Len(steps) = 1 => result.step = steps[1]
       /\ Len(steps) >= 2 =>
             /\ result.step.Duration.Valid
                   <=> (result.step.StartedAt.Valid /\ result.step.FinishedAt.Valid)
             /\ result.step.Duration.Duration
                   = result.step.FinishedAt.Time - result.step.StartedAt.Time
       /\ (\E i \in 1..Len(steps) : steps[i].StartedAt.Valid /\ steps[i].FinishedAt.Valid) =>
             /\ result.step.FinishedAt.Time >= result.step.StartedAt.Time
             /\ Len(steps) >= 2 => result.step.Duration.Duration >= 0

\* C9: three children were aggregated, one without a started and one without a
\* finished; the aggregate runs from the least started to the greatest finished.
C9_Witness ==
    /\ result.op = "Aggregate"
    /\ Len(steps) = 3
    /\ \E i \in 1..3 : ~steps[i].StartedAt.Valid /\ steps[i].FinishedAt.Valid
    /\ \E i \in 1..3 : steps[i].StartedAt.Valid /\ ~steps[i].FinishedAt.Valid
    /\ steps[3].StartedAt = SomeTime(1)
    /\ steps[1].FinishedAt = SomeTime(MaxTime)
    /\ result.step.StartedAt = SomeTime(1)
    /\ result.step.FinishedAt = SomeTime(MaxTime)
    /\ result.step.Duration = [Valid |-> TRUE, Duration |-> MaxTime - 1]

(***************************************************************************)
(* Properties of broadcastMonitorPipeline (SpecBroadcast)                  *)
(***************************************************************************)
Returned(p) == pollers[p].returned

C10_Result ==
    /\ \A p \in ciProvidersByID : pollers[p].pc = "done"
    /\ (/\ \E p \in ciProvidersByID : Returned(p) # ErrUnknownPipelineURL
        /\ \A p \in ciProvidersByID : Returned(p) \in {NilErr, ErrUnknownPipelineURL})
          => broadcast.err = NilErr
    /\ broadcast.err = ErrUnknownPipelineURL
          <=> \A p \in ciProvidersByID : Returned(p) = ErrUnknownPipelineURL

\* C10: broadcastMonitorPipeline runs one poller per CI provider; it returns nil
\* when some provider did not return ErrUnknownPipelineURL and every provider
\* returned nil or ErrUnknownPipelineURL; it returns ErrUnknownPipelineURL if and
\* only if every provider returned ErrUnknownPipelineURL.
C10_BroadcastResult ==
    /\ broadcast.pc # "idle" => DOMAIN pollers = ciProvidersByID
    /\ broadcast.pc = "returned" => C10_Result

\* C10 for a cache that has one CI provider or more
C10_BroadcastResultWithProviders ==
    /\ broadcast.pc # "idle" => DOMAIN pollers = ciProvidersByID
    /\ (broadcast.pc = "returned" /\ ciProvidersByID # {}) => C10_Result

\* C10: the cache has no CI provider, so that no provider adopted the URL, and
\* the broadcast returned nil.
C10_Witness ==
    /\ broadcast.pc = "returned"
    /\ ciProvidersByID = {}
    /\ broadcast.err = NilErr

\* the loop receives the error of a poller that failed, and no failure was
\* received before it
C11_FirstFailure(p) ==
    /\ pollers[p].pc = "send"
    /\ pollers'[p].pc = "done"
    /\ Returned(p) = ErrProvider
    /\ \A q \in ciProvidersByID : ~(pollers[q].pc = "done" /\ Returned(q) = ErrProvider)

C11_Kept ==
    /\ broadcast.err # NilErr => broadcast'.err = broadcast.err
    /\ ctxDone => ctxDone'

C11_Original_Step ==
    /\ C11_Kept
    /\ \A p \in ciProvidersByID :
          C11_FirstFailure(p) =>
             /\ broadcast'.err = [msg |-> ErrProvider.msg, provider |-> p]
             /\ ctxDone'

\* C11 as stated: the first poller error that is neither ErrUnknownPipelineURL
\* nor Canceled cancels the context of the pollers and becomes the error
\* returned, wrapped with the id of its provider; no later error replaces it.
C11_FirstFailureIsReturned == [][C11_Original_Step]_vars

C11_Step ==
    /\ C11_Kept
    /\ \A p \in ciProvidersByID :
          C11_FirstFailure(p) =>
             /\ ctxDone'
             /\ IF broadcast.err = NilErr
                THEN broadcast'.err = [msg |-> ErrProvider.msg, provider |-> p]
                ELSE broadcast.err = ContextCanceled /\ broadcast'.err = ContextCanceled
    /\ \A p \in ciProvidersByID :
          (pollers[p].pc = "send" /\ pollers'[p].pc = "done"
              /\ Returned(p) = ContextCanceled /\ broadcast.err = NilErr) =>
             broadcast'.err = ContextCanceled /\ ctxDone'

\* C11 amended: the first poller error received that is not
\* ErrUnknownPipelineURL becomes the error returned and no later error replaces
\* it; it is the first failure, wrapped with the id of its provider, unless a
\* Canceled was received before it, which takes a cancellation by the caller and
\* is then the error returned. The context of the pollers is done from then on.
C11_FirstErrorIsReturned == [][C11_Step]_vars

\* C11: the broadcast returned the failure of provider 2 although provider 1
\* failed too and a third provider returned Canceled after the cancellation.
C11_Witness ==
    /\ broadcast.pc = "returned"
    /\ broadcast.err = [msg |-> ErrProvider.msg, provider |-> 2]
    /\ Cardinality(ciProvidersByID) = 3
    /\ Returned(1) = ErrProvider
    /\ Returned(3) = ContextCanceled

(***************************************************************************)
(* cache.go: monitorRefStatuses and Cache.broadcastMonitorRefStatus        *)
(***************************************************************************)
\* the arguments repo and ref of broadcastMonitorRefStatus
RepoArg == "~/citop"
RefArg == "master"
\* what GitOriginURL returns for a local repository: the URL of origin and the
\* sha of the commit
OriginURL == "github.com/nbedos/citop"
LocalSha == "4cc9a4b"
\* the commit sent on commitc by the caller is numbered 0, the commits of a
\* source provider by the index of the provider
LocalCommit == 0

GitOriginURLResults == {NilErr, ErrUnknownGitReference, ErrUnknownRepositoryURL, ErrGit}

\* lines 673-679: one goroutine per source provider
StartMonitors ==
    monitors' = [p \in sourceProviders |-> [monitors[p] EXCEPT !.pc = "Commit"]]

\* lines 648-668, GitOriginURL returning e
GitOriginURLReturns(e) ==
    /\ refStatus.pc = "GitOriginURL"
    /\ IF e = NilErr
       THEN /\ refStatus' = [refStatus EXCEPT !.pc = "commitc", !.err = e]
            /\ UNCHANGED monitors
       ELSE IF e = ErrUnknownGitReference
       THEN /\ refStatus' = [refStatus EXCEPT !.pc = "range", !.err = e,
                                              !.repositoryURL = OriginURL]
            /\ StartMonitors
       ELSE IF e = ErrUnknownRepositoryURL
       THEN /\ refStatus' = [refStatus EXCEPT !.pc = "range", !.err = e,
                                              !.repositoryURL = RepoArg]
            /\ StartMonitors
       ELSE /\ refStatus' = [refStatus EXCEPT !.pc = "returned", !.err = e]
            /\ UNCHANGED monitors
    /\ UNCHANGED sourceProviders

\* lines 652-658: the commit of the local repository is received on commitc
SendLocalCommit ==
    /\ refStatus.pc = "commitc"
    /\ refStatus' = [refStatus EXCEPT !.pc = "range",
                                      !.commits = @ \cup {LocalCommit},
                                      !.ref = LocalSha,
                                      !.repositoryURL = OriginURL]
    /\ StartMonitors
    /\ UNCHANGED sourceProviders

\* lines 655-656: the context of the caller is done
LocalCommitCanceled ==
    /\ refStatus.pc = "commitc"
    /\ refStatus.callerDone
    /\ refStatus' = [refStatus EXCEPT !.pc = "returned", !.err = ContextCanceled]
    /\ UNCHANGED <<sourceProviders, monitors>>

\* what a call of a source provider can return
SourceProviderResults ==
    {NilErr, ErrUnknownRepositoryURL, ErrUnknownGitReference, ErrProvider}
    \cup (IF refStatus.ctxDone THEN {ContextCanceled} ELSE {})

\* monitorRefStatuses returns e: the goroutine is about to send e on errc
MonitorReturns(p, e) ==
    monitors' = [monitors EXCEPT ![p].pc = "send", ![p].returned = e]

\* lines 57-60 of monitorRefStatuses: p.Commit(ctx, url, ref) returns e
CommitReturns(p, e) ==
    /\ monitors[p].pc = "Commit"
    /\ IF e # NilErr
       THEN monitors' = [monitors EXCEPT ![p].pc = "send", ![p].returned = e,
                                         ![p].url = refStatus.repositoryURL,
                                         ![p].ref = refStatus.ref]
       ELSE monitors' = [monitors EXCEPT ![p].pc = "commitc",
                                         ![p].url = refStatus.repositoryURL,
                                         ![p].ref = refStatus.ref]
    /\ UNCHANGED <<sourceProviders, refStatus>>

\* lines 61-63 and 87-89 of monitorRefStatuses: the commit is received on commitc
MonitorSendsCommit(p) ==
    /\ monitors[p].pc = "commitc"
    /\ monitors' = [monitors EXCEPT ![p].pc = "wait"]
    /\ refStatus' = [refStatus EXCEPT !.commits = @ \cup {p}]
    /\ UNCHANGED sourceProviders

\* lines 64-65, 72-73 and 90-91: the context is done
MonitorCanceled(p) ==
    /\ monitors[p].pc \in {"commitc", "wait"}
    /\ refStatus.ctxDone
    /\ MonitorReturns(p, ContextCanceled)
    /\ UNCHANGED <<sourceProviders, refStatus>>

\* lines 70-71: the wait time is over
TimeAfter(p) ==
    /\ monitors[p].pc = "wait"
    /\ monitors' = [monitors EXCEPT ![p].pc = "RefStatuses"]
    /\ UNCHANGED <<sourceProviders, refStatus>>

\* lines 78-80: the error of RefStatuses that monitorRefStatuses returns
WrapRefStatuses(p, e) ==
    IF e # ErrUnknownRepositoryURL /\ e # ContextCanceled
    THEN [msg |-> e.msg, provider |-> p]
    ELSE e

\* lines 76-94: p.RefStatuses returns e, with statuses that differ or not
RefStatusesReturns(p, e, differ) ==
    /\ monitors[p].pc = "RefStatuses"
    /\ IF e # NilErr
       THEN MonitorReturns(p, WrapRefStatuses(p, e))
       ELSE monitors' = [monitors EXCEPT ![p].pc = IF differ THEN "commitc" ELSE "wait"]
    /\ UNCHANGED <<sourceProviders, refStatus>>

\* lines 688-716: one iteration of the loop over errc, on the error e
ReceivedRef(e) ==
    IF refStatus.canceled
    THEN UNCHANGED refStatus
    ELSE LET unknown == e = ErrUnknownRepositoryURL \/ e = ErrUnknownGitReference
             n == IF unknown THEN refStatus.n + 1 ELSE Cardinality(sourceProviders)
             err == IF e = ErrUnknownRepositoryURL
                    THEN (IF refStatus.err = NilErr THEN e ELSE refStatus.err)
                    ELSE IF e = ErrUnknownGitReference
                    THEN (IF refStatus.err = NilErr \/ refStatus.err = ErrUnknownRepositoryURL
                          THEN e ELSE refStatus.err)
                    ELSE e
             canceled == n >= Cardinality(sourceProviders)
         IN refStatus' = [refStatus EXCEPT !.n = n,
                                           !.canceled = canceled,
                                           !.err = IF canceled THEN e ELSE err,
                                           !.ctxDone = @ \/ canceled]

\* line 677 meets line 688: errc is unbuffered
ReceiveRef(p) ==
    /\ monitors[p].pc = "send"
    /\ refStatus.pc = "range"
    /\ monitors' = [monitors EXCEPT ![p].pc = "done"]
    /\ ReceivedRef(monitors[p].returned)
    /\ UNCHANGED sourceProviders

\* lines 681-684
CloseRefErrc ==
    /\ refStatus.pc = "range"
    /\ ~refStatus.errcClosed
    /\ \A p \in sourceProviders : monitors[p].pc = "done"
    /\ refStatus' = [refStatus EXCEPT !.errcClosed = TRUE]
    /\ UNCHANGED <<sourceProviders, monitors>>

\* line 718
ReturnRef ==
    /\ refStatus.pc = "range"
    /\ refStatus.errcClosed
    /\ refStatus' = [refStatus EXCEPT !.pc = "returned"]
    /\ UNCHANGED <<sourceProviders, monitors>>

\* the caller of broadcastMonitorRefStatus cancels the context it passed
CancelRefCaller ==
    /\ refStatus.pc \notin {"idle", "returned"}
    /\ ~refStatus.callerDone
    /\ refStatus' = [refStatus EXCEPT !.callerDone = TRUE, !.ctxDone = TRUE]
    /\ UNCHANGED <<sourceProviders, monitors>>

(***************************************************************************)
(* SpecRefStatus: one call of broadcastMonitorRefStatus                    *)
(***************************************************************************)
InitRefStatus ==
    /\ InitCache
    /\ IdleAgg
    /\ IdleBroadcast
    /\ IdlePoller
    /\ IdleMonitor
    /\ IdleLocks
    /\ IdleScenarios
    /\ sourceProviders \in {1..k : k \in 0..MaxSourceProviders}
    /\ monitors = [p \in sourceProviders |->
                      [pc |-> "go", returned |-> NilErr, url |-> "", ref |-> ""]]
    /\ refStatus = [pc |-> "GitOriginURL", err |-> NilErr, n |-> 0, canceled |-> FALSE,
                    repositoryURL |-> "", ref |-> RefArg, ctxDone |-> FALSE,
                    callerDone |-> FALSE, errcClosed |-> FALSE, commits |-> {}]

OutsideRefStatus == <<cacheVars, aggVars, broadcastVars, pollVars, monVars, lockVars, scenarioVars>>

DoGitOriginURLReturns ==
    /\ \E e \in GitOriginURLResults : GitOriginURLReturns(e)
    /\ UNCHANGED OutsideRefStatus

DoSendLocalCommit == SendLocalCommit /\ UNCHANGED OutsideRefStatus

DoLocalCommitCanceled == LocalCommitCanceled /\ UNCHANGED OutsideRefStatus

DoCommitReturns ==
    /\ \E p \in sourceProviders, e \in SourceProviderResults : CommitReturns(p, e)
    /\ UNCHANGED OutsideRefStatus

DoMonitorSendsCommit ==
    /\ \E p \in sourceProviders : MonitorSendsCommit(p)
    /\ UNCHANGED OutsideRefStatus

DoMonitorCanceled ==
    /\ \E p \in sourceProviders : MonitorCanceled(p)
    /\ UNCHANGED OutsideRefStatus

DoTimeAfter ==
    /\ \E p \in sourceProviders : TimeAfter(p)
    /\ UNCHANGED OutsideRefStatus

DoRefStatusesReturns ==
    /\ \E p \in sourceProviders, e \in SourceProviderResults, differ \in BOOLEAN :
          RefStatusesReturns(p, e, differ)
    /\ UNCHANGED OutsideRefStatus

DoReceiveRef ==
    /\ \E p \in sourceProviders : ReceiveRef(p)
    /\ UNCHANGED OutsideRefStatus

DoCloseRefErrc == CloseRefErrc /\ UNCHANGED OutsideRefStatus

DoReturnRef == ReturnRef /\ UNCHANGED OutsideRefStatus

DoCancelRefCaller == CancelRefCaller /\ UNCHANGED OutsideRefStatus

NextRefStatus ==
    \/ DoGitOriginURLReturns
    \/ DoSendLocalCommit
    \/ DoLocalCommitCanceled
    \/ DoCommitReturns
    \/ DoMonitorSendsCommit
    \/ DoMonitorCanceled
    \/ DoTimeAfter
    \/ DoRefStatusesReturns
    \/ DoReceiveRef
    \/ DoCloseRefErrc
    \/ DoReturnRef
    \/ DoCancelRefCaller

SpecRefStatus == InitRefStatus /\ [][NextRefStatus]_vars

(***************************************************************************)
(* Properties of broadcastMonitorRefStatus (SpecRefStatus)                 *)
(***************************************************************************)
UnknownErrors == {ErrUnknownRepositoryURL, ErrUnknownGitReference}

\* every source provider was started and its monitorRefStatuses returned one
\* of the two errors
C12_AllUnknown ==
    \A p \in sourceProviders :
       monitors[p].pc = "done" /\ monitors[p].returned \in UnknownErrors

\* an unknown error is returned only when every source provider returned one
C12_OnlyWhenAllUnknown ==
    (refStatus.pc = "returned" /\ refStatus.err \in UnknownErrors) => C12_AllUnknown

\* C12: broadcastMonitorRefStatus returns ErrUnknownRepositoryURL or
\* ErrUnknownGitReference only when every source provider returned one of the
\* two, and then it returns ErrUnknownGitReference whenever some provider
\* returned ErrUnknownGitReference, in whatever order the results arrive.
C12_GitReferenceDominates ==
    /\ C12_OnlyWhenAllUnknown
    /\ (/\ refStatus.pc = "returned"
        /\ C12_AllUnknown
        /\ \E p \in sourceProviders : monitors[p].returned = ErrUnknownGitReference)
          => refStatus.err = ErrUnknownGitReference

\* C12: two source providers, the first returned ErrUnknownGitReference, the
\* second ErrUnknownRepositoryURL, and ErrUnknownRepositoryURL was returned.
C12_Witness ==
    /\ refStatus.pc = "returned"
    /\ Cardinality(sourceProviders) = 2
    /\ monitors[1].returned = ErrUnknownGitReference
    /\ monitors[2].returned = ErrUnknownRepositoryURL
    /\ refStatus.err = ErrUnknownRepositoryURL

\* C13: when the repository is a local path whose revision cannot be resolved,
\* no local commit is emitted, the source providers are asked with the URL of
\* origin and the ref as given, and if every source provider returns
\* ErrUnknownRepositoryURL or ErrUnknownGitReference the call returns
\* ErrUnknownGitReference.
C13_GitReferenceIsKept ==
    (refStatus.pc # "idle" /\ refStatus.repositoryURL = OriginURL
        /\ refStatus.ref = RefArg) =>
       /\ LocalCommit \notin refStatus.commits
       /\ \A p \in sourceProviders :
             monitors[p].pc \notin {"go", "Commit"} =>
                monitors[p].url = OriginURL /\ monitors[p].ref = RefArg
       /\ (refStatus.pc = "returned" /\ C12_AllUnknown) =>
             refStatus.err = ErrUnknownGitReference

\* C13: the revision was not resolved, the only source provider was asked with
\* the URL of origin and the ref as given and returned ErrUnknownRepositoryURL,
\* which is what the call returned.
C13_Witness ==
    /\ refStatus.pc = "returned"
    /\ refStatus.repositoryURL = OriginURL
    /\ refStatus.ref = RefArg
    /\ LocalCommit \notin refStatus.commits
    /\ sourceProviders = {1}
    /\ monitors[1].url = OriginURL
    /\ monitors[1].ref = RefArg
    /\ monitors[1].returned = ErrUnknownRepositoryURL
    /\ refStatus.err = ErrUnknownRepositoryURL

(***************************************************************************)
(* cache.go: Cache.monitorPipeline                                         *)
(***************************************************************************)
\* the provider p and the ref handed to monitorPipeline
PollerHost == "gitlab.com"
PollerRef == "master"

\* what BuildFromURL can return besides a pipeline
BuildFromURLErrors ==
    {ErrUnknownPipelineURL, ErrProvider}
    \cup (IF poller.ctxDone THEN {ContextCanceled} ELSE {})

\* lines 547-549: the wait time is over; backoff counts the wait times drawn
\* from b since it was reset last, and the wait time is zero when it is 0
PollerTimeAfter ==
    /\ poller.pc = "wait"
    /\ poller' = [poller EXCEPT !.pc = "BuildFromURL",
                                !.waited = Append(@, poller.backoff)]
    /\ UNCHANGED updates

\* lines 550-551: the context is done
PollerCanceled ==
    /\ poller.pc = "wait"
    /\ poller.ctxDone
    /\ poller' = [poller EXCEPT !.pc = "returned", !.err = ContextCanceled]
    /\ UNCHANGED updates

\* lines 554-557: BuildFromURL fails
BuildFromURLFails(e) ==
    /\ poller.pc = "BuildFromURL"
    /\ poller' = [poller EXCEPT !.pc = "returned", !.err = e]
    /\ UNCHANGED updates

\* lines 554-559: BuildFromURL returns the pipeline p
BuildFromURLReturns(p) ==
    /\ poller.pc = "BuildFromURL"
    /\ Len(poller.fetches) < MaxFetches
    /\ LET pipeline == [p EXCEPT !.providerHost = PollerHost]
       IN poller' = [poller EXCEPT !.pc = "SavePipeline",
                                   !.pipeline = pipeline,
                                   !.fetches = Append(@, pipeline)]
    /\ UNCHANGED updates

\* SaveOutcome that takes every save as accepted
SaveOutcomeAlwaysTick(err) == "tick"

\* lines 561-583: the switch on the error of SavePipeline
SaveOutcome(err) ==
    IF err = NilErr THEN "tick"
    ELSE IF err = ErrObsoleteBuild THEN "swallow"
    ELSE "return"

\* StillPolling that never leaves the loop
StillPollingAlways(pipeline) == TRUE

\* lines 585-587: the loop goes on
StillPolling(pipeline) == IsActive(pipeline.State)

\* lines 546 and 572: b.Reset() after a save that returned nil, and
\* b.NextBackOff() when the loop goes on
BackoffAfter(backoff, outcome, goesOn) ==
    LET reset == IF outcome = "tick" THEN 0 ELSE backoff
    IN IF goesOn THEN reset + 1 ELSE reset

\* lines 561-588: SavePipeline, the switch on its error and the end of the
\* iteration
PollerSaves ==
    /\ poller.pc = "SavePipeline"
    /\ SavePipeline(PollerRef, poller.pipeline)
    /\ LET err == lastCall'.err
           outcome == SaveOutcome(err)
           goesOn == outcome # "return" /\ StillPolling(poller.pipeline)
       IN /\ poller' = [poller EXCEPT
                           !.saves = Append(@, err),
                           !.pc = IF goesOn THEN "wait" ELSE "returned",
                           !.backoff = BackoffAfter(@, outcome, goesOn),
                           !.err = IF outcome = "return" THEN err ELSE NilErr]
          /\ updates' = [updates EXCEPT
                            !.sending = IF outcome = "tick" THEN @ + 1 ELSE @]

\* lines 563-568: a goroutine started after a save delivers its tick
UpdateReceived ==
    /\ updates.sending > 0
    /\ updates' = [sending |-> updates.sending - 1, received |-> updates.received + 1]
    /\ UNCHANGED poller

\* lines 563-568: a goroutine started after a save sees the context done
UpdateCanceled ==
    /\ updates.sending > 0
    /\ poller.ctxDone
    /\ updates' = [updates EXCEPT !.sending = @ - 1]
    /\ UNCHANGED poller

\* the caller of monitorPipeline cancels the context
CancelPoller ==
    /\ poller.pc \notin {"idle", "returned"}
    /\ ~poller.ctxDone
    /\ poller' = [poller EXCEPT !.ctxDone = TRUE]
    /\ UNCHANGED updates

(***************************************************************************)
(* SpecPoller: one call of monitorPipeline on an empty cache               *)
(***************************************************************************)
InitPoller ==
    /\ InitCache
    /\ IdleAgg
    /\ IdleBroadcast
    /\ IdleRefStatus
    /\ IdleMonitor
    /\ IdleLocks
    /\ IdleScenarios
    /\ poller = [pc |-> "wait", ctxDone |-> FALSE, fetches |-> <<>>, saves |-> <<>>,
                 backoff |-> 0, waited |-> <<>>,
                 pipeline |-> NoPipeline, err |-> NilErr]
    /\ updates = [sending |-> 0, received |-> 0]

OutsidePoller == <<aggVars, broadcastVars, refVars, monVars, lockVars, scenarioVars>>

DoPollerTimeAfter == PollerTimeAfter /\ UNCHANGED <<cacheVars, OutsidePoller>>

DoPollerCanceled == PollerCanceled /\ UNCHANGED <<cacheVars, OutsidePoller>>

DoBuildFromURLFails ==
    /\ \E e \in BuildFromURLErrors : BuildFromURLFails(e)
    /\ UNCHANGED <<cacheVars, OutsidePoller>>

DoBuildFromURLReturns ==
    /\ \E p \in PipelineInputs : BuildFromURLReturns(p)
    /\ UNCHANGED <<cacheVars, OutsidePoller>>

DoPollerSaves == PollerSaves /\ UNCHANGED OutsidePoller

DoUpdateReceived == UpdateReceived /\ UNCHANGED <<cacheVars, OutsidePoller>>

DoUpdateCanceled == UpdateCanceled /\ UNCHANGED <<cacheVars, OutsidePoller>>

DoCancelPoller == CancelPoller /\ UNCHANGED <<cacheVars, OutsidePoller>>

NextPoller ==
    \/ DoPollerTimeAfter
    \/ DoPollerCanceled
    \/ DoBuildFromURLFails
    \/ DoBuildFromURLReturns
    \/ DoPollerSaves
    \/ DoUpdateReceived
    \/ DoUpdateCanceled
    \/ DoCancelPoller

SpecPoller == InitPoller /\ [][NextPoller]_vars

(***************************************************************************)
(* Properties of monitorPipeline (SpecPoller)                              *)
(***************************************************************************)
\* the step in which monitorPipeline gets the error of its SavePipeline
PollerSaveStep == poller.pc = "SavePipeline" /\ poller'.pc # "SavePipeline"

C14_Step ==
    PollerSaveStep =>
       /\ lastCall'.err \in {NilErr, ErrObsoleteBuild}
       /\ ~NotActive(poller.pipeline.State) => poller'.pc = "wait"
       /\ NotActive(poller.pipeline.State) =>
             poller'.pc = "returned" /\ poller'.err = NilErr

\* the fetches running(updated=1), running(updated=1), passed(updated=2)
C14_Fetches ==
    <<[ID |-> "42", providerHost |-> PollerHost, State |-> "running", UpdatedAt |-> 1],
      [ID |-> "42", providerHost |-> PollerHost, State |-> "running", UpdatedAt |-> 1],
      [ID |-> "42", providerHost |-> PollerHost, State |-> "passed", UpdatedAt |-> 2]>>

C14_AfterFetches ==
    (poller.fetches = C14_Fetches /\ poller.pc = "returned") =>
       /\ poller.saves = <<NilErr, NilErr, NilErr>>
       /\ updates.sending + updates.received <= 3
       /\ ~poller.ctxDone => updates.sending + updates.received = 3
       /\ poller.err = NilErr
       /\ DOMAIN pipelineByKey = {Key(C14_Fetches[3])}
       /\ pipelineByKey[Key(C14_Fetches[3])].val.UpdatedAt = 2

\* C14: monitorPipeline goes on polling after the fetch of a pending or running
\* pipeline and returns nil right after the first fetch of a pipeline that is
\* not active, whether its save was accepted or rejected as obsolete; for the
\* fetches running(1), running(1), passed(2) it fetches three times, the three
\* saves are accepted and each starts a tick, the cache ends with one entry for
\* the key, with updated = 2, and monitorPipeline returns nil.
C14_PollsWhileActive == [][C14_Step]_vars /\ []C14_AfterFetches

\* C14: the three fetches were made, monitorPipeline returned nil, the three
\* ticks were received and the cache holds the passed pipeline.
C14_Witness ==
    /\ poller.fetches = C14_Fetches
    /\ poller.pc = "returned"
    /\ poller.err = NilErr
    /\ updates.received = 3
    /\ Pipeline(Key(C14_Fetches[3])) = [pipeline |-> C14_Fetches[3], exists |-> TRUE]

C15_Step ==
    /\ PollerSaveStep =>
          /\ lastCall'.err = NilErr =>
                updates'.sending = updates.sending + 1
          /\ lastCall'.err = ErrObsoleteBuild =>
                /\ updates' = updates
                /\ poller'.err = NilErr
          /\ lastCall'.err \notin {NilErr, ErrObsoleteBuild} =>
                /\ updates' = updates
                /\ poller'.pc = "returned"
                /\ poller'.err = lastCall'.err
    /\ ~PollerSaveStep =>
          updates'.sending + updates'.received <= updates.sending + updates.received

\* number of saves of monitorPipeline that returned nil
C15_Accepted == Cardinality({i \in DOMAIN poller.saves : poller.saves[i] = NilErr})

\* C15: monitorPipeline starts the sending of a tick only after a SavePipeline
\* that returned nil, one tick per accepted save at most, and none after a
\* SavePipeline that returned ErrObsoleteBuild, an error it does not return; any
\* other error of SavePipeline is returned.
C15_TickPerAcceptedSave ==
    [][C15_Step]_vars /\ [](updates.sending + updates.received <= C15_Accepted)

\* C15: the second save, of a pipeline that is not active and has the updated of
\* the first, was rejected with ErrObsoleteBuild: one tick for two saves.
C15_Witness ==
    /\ poller.pc = "returned"
    /\ poller.err = NilErr
    /\ Len(poller.fetches) = 2
    /\ poller.fetches[1].UpdatedAt = poller.fetches[2].UpdatedAt
    /\ NotActive(poller.fetches[2].State)
    /\ poller.saves = <<NilErr, ErrObsoleteBuild>>
    /\ updates.received = 1
    /\ updates.sending = 0

(***************************************************************************)
(* cache.go: Cache.MonitorPipelines                                        *)
(***************************************************************************)
\* the status URLs a commit can list, and the ref handed to MonitorPipelines
URLs == {"gitlab.com/nbedos/citop/pipelines/42", "gitlab.com/nbedos/citop/-/jobs/7"}
MonitorRef == "master"

StatusLists == ListsOf(URLs, MaxStatuses)

\* the ticks started at lines 748-756 are filed under CommitTicks, the ticks
\* started by the pollers of the URL u (lines 563-568) under u
CommitTicks == "commits"
TickOrigins == URLs \cup {CommitTicks}

\* the commits broadcastMonitorRefStatus sends
StreamCommits == {c \in CommitInputs : c.Sha = LocalSha}

\* the pipelines the pollers of a status URL fetch
TaskPipelines ==
    {p \in PipelineInputs :
        p.providerHost = PollerHost /\ p.UpdatedAt = 1 /\ NotActive(p.State)}

\* what broadcastMonitorRefStatus can return
StreamResults ==
    {NilErr, ErrProvider} \cup (IF mon.ctxDone THEN {ContextCanceled} ELSE {})

\* the first error kept by broadcastMonitorPipeline (lines 634-637)
TaskFailures == {ErrUnknownPipelineURL, ErrProvider}

\* TickContextDone for goroutines that never see their context done
TickContextNeverDone(o) == FALSE

\* TickContextDone for goroutines that take any context for done
TickContextAlwaysDone(o) == TRUE

\* lines 566 and 753: the context of MonitorPipelines, or the context that
\* the broadcast of the URL o derived from it (line 599), is done
TickContextDone(o) ==
    mon.ctxDone \/ (o \in URLs /\ tasks[o].ctxDone)

\* MonReceived that keeps the error received last
MonReceivedKeepingLast(m, e) ==
    IF e # NilErr THEN [m EXCEPT !.err = e, !.ctxDone = TRUE] ELSE m

\* lines 783-788: one iteration of the loop over errc, on the error e
MonReceived(m, e) ==
    IF e # NilErr /\ m.err = NilErr
    THEN [m EXCEPT !.err = e, !.ctxDone = TRUE]
    ELSE m

\* StartTasks without the test of urls
RECURSIVE StartTasksForEveryStatus(_, _)
StartTasksForEveryStatus(statuses, st) ==
    IF statuses = <<>>
    THEN st
    ELSE LET u == Head(statuses)
         IN StartTasksForEveryStatus(Tail(statuses),
               [st EXCEPT !.urls = @ \cup {u}, !.started[u] = @ + 1])

\* lines 757-773: st.urls is the map urls, st.started counts per URL the
\* goroutines started at lines 760-770, st.skipped the statuses for which the
\* test of line 758 found the URL in urls
RECURSIVE StartTasks(_, _)
StartTasks(statuses, st) ==
    IF statuses = <<>>
    THEN st
    ELSE LET u == Head(statuses)
         IN StartTasks(Tail(statuses),
               IF u \in st.urls
               THEN [st EXCEPT !.skipped = @ + 1]
               ELSE [st EXCEPT !.urls = @ \cup {u}, !.started[u] = @ + 1])

\* broadcastMonitorRefStatus sends a commit on commitc
StreamEmits(commit, statuses) ==
    /\ stream.pc = "broadcastMonitorRefStatus"
    /\ stream.sent < MaxCommits
    /\ stream' = [stream EXCEPT !.pc = "commitc", !.commit = commit,
                                !.statuses = statuses, !.sent = @ + 1]
    /\ UNCHANGED <<cacheVars, mon, tasks, ticks>>

\* lines 745-774: the commit is received and one iteration of the loop runs
CommitReceived ==
    /\ stream.pc = "commitc"
    /\ mon.consumer = "range"
    /\ SaveCommit(MonitorRef, stream.commit)
    /\ stream' = [stream EXCEPT !.pc = "broadcastMonitorRefStatus",
                                !.commit = NoCommit, !.statuses = <<>>]
    /\ LET st == StartTasks(stream.statuses,
                            [urls |-> mon.urls, skipped |-> mon.skipped,
                             started |-> [u \in URLs |-> tasks[u].started]])
       IN /\ mon' = [mon EXCEPT !.urls = st.urls, !.skipped = st.skipped]
          /\ tasks' = [u \in URLs |->
                          IF st.started[u] > tasks[u].started
                          THEN [tasks[u] EXCEPT !.pc = "broadcastMonitorPipeline",
                                                !.started = st.started[u]]
                          ELSE tasks[u]]
    /\ ticks' = [ticks EXCEPT ![CommitTicks].sending = @ + 1]

\* broadcastMonitorRefStatus returns e; while it sends on commitc it returns
\* only once the context is done
StreamReturns(e) ==
    /\ stream.pc \in {"broadcastMonitorRefStatus", "commitc"}
    /\ stream.pc = "commitc" => mon.ctxDone
    /\ stream' = [stream EXCEPT !.pc = "errc", !.err = e]
    /\ UNCHANGED <<cacheVars, mon, tasks, ticks>>

\* broadcastMonitorRefStatus returns because the context is done
StreamStops ==
    /\ mon.ctxDone
    /\ StreamReturns(ContextCanceled)

\* lines 733-737 meet line 783: the result of broadcastMonitorRefStatus is
\* received and commitc is closed
StreamReports ==
    /\ stream.pc = "errc"
    /\ mon.pc = "range"
    /\ stream' = [stream EXCEPT !.pc = "done"]
    /\ mon' = [MonReceived(mon, stream.err) EXCEPT !.commitcClosed = TRUE]
    /\ UNCHANGED <<cacheVars, tasks, ticks>>

\* line 745: commitc is closed, the loop over it ends
ConsumerDone ==
    /\ mon.consumer = "range"
    /\ mon.commitcClosed
    /\ mon' = [mon EXCEPT !.consumer = "done"]
    /\ UNCHANGED <<cacheVars, stream, tasks, ticks>>

\* a poller of the URL u saves the pipeline it fetched (lines 561-572); no
\* poller fetched a pipeline when they all returned ErrUnknownPipelineURL
TaskSaves(u, p) ==
    /\ tasks[u].pc = "broadcastMonitorPipeline"
    /\ tasks[u].err # ErrUnknownPipelineURL
    /\ tasks[u].saves < MaxTaskSaves
    /\ SavePipeline(MonitorRef, p)
    /\ tasks' = [tasks EXCEPT ![u].saves = @ + 1]
    /\ ticks' = [ticks EXCEPT ![u].sending =
                    IF SaveOutcome(lastCall'.err) = "tick" THEN @ + 1 ELSE @]
    /\ UNCHANGED <<mon, stream>>

\* lines 634-637 of broadcastMonitorPipeline: the broadcast of u keeps its
\* first error and cancels the context of its pollers
TaskCancels(u, e) ==
    /\ tasks[u].pc = "broadcastMonitorPipeline"
    /\ tasks[u].err = NilErr
    /\ e = ErrUnknownPipelineURL => tasks[u].saves = 0
    /\ tasks' = [tasks EXCEPT ![u].err = e, ![u].ctxDone = TRUE]
    /\ UNCHANGED <<cacheVars, mon, stream, ticks>>

\* lines 762-769: broadcastMonitorPipeline returns e
TaskReturned(u, e) ==
    /\ tasks[u].pc = "broadcastMonitorPipeline"
    /\ tasks' = [tasks EXCEPT ![u].err = e,
                              ![u].pc = IF e # ErrUnknownPipelineURL
                                        THEN "errc" ELSE "done"]
    /\ UNCHANGED <<cacheVars, mon, stream, ticks>>

\* every poller of u returned nil
TaskReturns(u) ==
    /\ tasks[u].err = NilErr
    /\ TaskReturned(u, NilErr)

\* the context of the pollers of u is done: they return and so does the
\* broadcast, with its first error
TaskStops(u) ==
    /\ mon.ctxDone \/ tasks[u].ctxDone
    /\ TaskReturned(u, IF tasks[u].err # NilErr THEN tasks[u].err ELSE ContextCanceled)

\* line 767 meets line 783
TaskReports(u) ==
    /\ tasks[u].pc = "errc"
    /\ mon.pc = "range"
    /\ tasks' = [tasks EXCEPT ![u].pc = "done"]
    /\ mon' = MonReceived(mon, tasks[u].err)
    /\ UNCHANGED <<cacheVars, stream, ticks>>

\* lines 777-780: every goroutine counted by wg is done
CloseMonErrc ==
    /\ mon.pc = "range"
    /\ ~mon.errcClosed
    /\ stream.pc = "done"
    /\ mon.consumer = "done"
    /\ ticks[CommitTicks].sending = 0
    /\ \A u \in URLs : tasks[u].pc \in {"none", "done"}
    /\ mon' = [mon EXCEPT !.errcClosed = TRUE]
    /\ UNCHANGED <<cacheVars, stream, tasks, ticks>>

\* line 790
MonReturns ==
    /\ mon.pc = "range"
    /\ mon.errcClosed
    /\ mon' = [mon EXCEPT !.pc = "returned"]
    /\ UNCHANGED <<cacheVars, stream, tasks, ticks>>

\* the caller of MonitorPipelines cancels the context it passed
CancelMonCaller ==
    /\ mon.pc = "range"
    /\ ~mon.ctxDone
    /\ mon' = [mon EXCEPT !.ctxDone = TRUE]
    /\ UNCHANGED <<cacheVars, stream, tasks, ticks>>

\* lines 565 and 751: the consumer of updates receives the tick of a goroutine
TickReceived(o) ==
    /\ ticks[o].sending > 0
    /\ ticks' = [ticks EXCEPT ![o].sending = @ - 1, ![o].received = @ + 1]
    /\ UNCHANGED <<cacheVars, mon, stream, tasks>>

\* lines 566 and 753: a goroutine sees its context done and gives up its tick
TickCanceled(o) ==
    /\ ticks[o].sending > 0
    /\ TickContextDone(o)
    /\ ticks' = [ticks EXCEPT ![o].sending = @ - 1]
    /\ UNCHANGED <<cacheVars, mon, stream, tasks>>

(***************************************************************************)
(* SpecMonitor: one call of MonitorPipelines on an empty cache             *)
(***************************************************************************)
InitMonitor ==
    /\ InitCache
    /\ IdleAgg
    /\ IdleBroadcast
    /\ IdleRefStatus
    /\ IdlePoller
    /\ IdleLocks
    /\ IdleScenarios
    /\ mon = [pc |-> "range", err |-> NilErr, ctxDone |-> FALSE,
              errcClosed |-> FALSE, commitcClosed |-> FALSE, urls |-> {},
              skipped |-> 0, consumer |-> "range"]
    /\ stream = [pc |-> "broadcastMonitorRefStatus", commit |-> NoCommit,
                 statuses |-> <<>>, err |-> NilErr, sent |-> 0]
    /\ tasks = [u \in URLs |-> [pc |-> "none", err |-> NilErr, ctxDone |-> FALSE,
                                started |-> 0, saves |-> 0]]
    /\ ticks = [o \in TickOrigins |-> [sending |-> 0, received |-> 0]]

OutsideMonitor == <<aggVars, broadcastVars, refVars, pollVars, lockVars, scenarioVars>>

DoStreamEmits ==
    /\ \E c \in StreamCommits, statuses \in StatusLists : StreamEmits(c, statuses)
    /\ UNCHANGED OutsideMonitor

DoCommitReceived == CommitReceived /\ UNCHANGED OutsideMonitor

DoStreamReturns ==
    /\ \E e \in StreamResults : StreamReturns(e)
    /\ UNCHANGED OutsideMonitor

DoStreamStops == StreamStops /\ UNCHANGED OutsideMonitor

DoStreamReports == StreamReports /\ UNCHANGED OutsideMonitor

DoConsumerDone == ConsumerDone /\ UNCHANGED OutsideMonitor

DoTaskSaves ==
    /\ \E u \in URLs, p \in TaskPipelines : TaskSaves(u, p)
    /\ UNCHANGED OutsideMonitor

DoTaskCancels ==
    /\ \E u \in URLs, e \in TaskFailures : TaskCancels(u, e)
    /\ UNCHANGED OutsideMonitor

DoTaskReturns ==
    /\ \E u \in URLs : TaskReturns(u)
    /\ UNCHANGED OutsideMonitor

DoTaskStops(u) == TaskStops(u) /\ UNCHANGED OutsideMonitor

DoTaskReports(u) == TaskReports(u) /\ UNCHANGED OutsideMonitor

DoCloseMonErrc == CloseMonErrc /\ UNCHANGED OutsideMonitor

DoMonReturns == MonReturns /\ UNCHANGED OutsideMonitor

DoCancelMonCaller == CancelMonCaller /\ UNCHANGED OutsideMonitor

DoTickReceived(o) == TickReceived(o) /\ UNCHANGED OutsideMonitor

DoTickCanceled(o) == TickCanceled(o) /\ UNCHANGED OutsideMonitor

NextMonitor ==
    \/ DoStreamEmits
    \/ DoCommitReceived
    \/ DoStreamReturns
    \/ DoStreamStops
    \/ DoStreamReports
    \/ DoConsumerDone
    \/ DoTaskSaves
    \/ DoTaskCancels
    \/ DoTaskReturns
    \/ \E u \in URLs : DoTaskStops(u)
    \/ \E u \in URLs : DoTaskReports(u)
    \/ DoCloseMonErrc
    \/ DoMonReturns
    \/ DoCancelMonCaller
    \/ \E o \in TickOrigins : DoTickReceived(o)
    \/ \E o \in TickOrigins : DoTickCanceled(o)

SpecMonitor == InitMonitor /\ [][NextMonitor]_vars

\* the commits of the fair specifications list one URL, any number of times
OneURL == CHOOSE u \in URLs : TRUE

DoStreamEmitsOneURL ==
    /\ \E c \in StreamCommits, statuses \in ListsOf({OneURL}, MaxStatuses) :
          StreamEmits(c, statuses)
    /\ UNCHANGED OutsideMonitor

NextMonitorOneURL ==
    \/ DoStreamEmitsOneURL
    \/ DoCommitReceived
    \/ DoStreamReturns
    \/ DoStreamStops
    \/ DoStreamReports
    \/ DoConsumerDone
    \/ DoTaskSaves
    \/ DoTaskCancels
    \/ DoTaskReturns
    \/ \E u \in URLs : DoTaskStops(u)
    \/ \E u \in URLs : DoTaskReports(u)
    \/ DoCloseMonErrc
    \/ DoMonReturns
    \/ DoCancelMonCaller
    \/ \E o \in TickOrigins : DoTickReceived(o)
    \/ \E o \in TickOrigins : DoTickCanceled(o)

\* the goroutines are scheduled, and a call that was handed a context returns
\* once that context is done
MonitorFairness ==
    /\ WF_vars(DoCommitReceived)
    /\ WF_vars(DoStreamStops)
    /\ WF_vars(DoStreamReports)
    /\ WF_vars(DoConsumerDone)
    /\ \A u \in URLs : WF_vars(DoTaskStops(u))
    /\ \A u \in URLs : WF_vars(DoTaskReports(u))
    /\ WF_vars(DoCloseMonErrc)
    /\ WF_vars(DoMonReturns)
    /\ \A o \in TickOrigins : WF_vars(DoTickCanceled(o))

\* SpecMonitorFair: SpecMonitor with scheduled goroutines
SpecMonitorFair == InitMonitor /\ [][NextMonitorOneURL]_vars /\ MonitorFairness

\* SpecMonitorTicks: SpecMonitorFair with a consumer that keeps receiving from
\* the channel updates
SpecMonitorTicks ==
    /\ SpecMonitorFair
    /\ \A o \in TickOrigins : WF_vars(DoTickReceived(o))

(***************************************************************************)
(* Claims on MonitorPipelines                                              *)
(***************************************************************************)
\* C16: within one call of MonitorPipelines, broadcastMonitorPipeline is
\* started at most once for each status URL, exactly for the URLs of the map
\* urls, however many commits list the URL and however many times a commit
\* repeats it.
C16_OneBroadcastPerURL ==
    mon.pc # "idle" =>
        \A u \in URLs :
            /\ tasks[u].started <= 1
            /\ tasks[u].started = 1 <=> u \in mon.urls

\* C16: two commits were received, the first repeats a URL and the second
\* lists it again; that URL was skipped twice and has one broadcast.
C16_Witness ==
    /\ stream.sent = MaxCommits
    /\ stream.pc = "broadcastMonitorRefStatus"
    /\ mon.skipped >= 2
    /\ \E u \in URLs : mon.urls = {u} /\ tasks[u].started = 1

\* the errors received from errc in this step (line 783)
C17_Reports ==
    (IF stream.pc = "errc" /\ stream'.pc = "done" THEN {stream.err} ELSE {})
    \cup {tasks[u].err : u \in {v \in URLs : tasks[v].pc = "errc" /\ tasks'[v].pc = "done"}}

\* this step is a broadcast that returns ErrUnknownPipelineURL (line 766)
C17_UnknownURLStep ==
    \E u \in URLs :
        /\ tasks[u].pc = "broadcastMonitorPipeline"
        /\ tasks'[u].pc # "broadcastMonitorPipeline"
        /\ tasks'[u].err = ErrUnknownPipelineURL

\* this step is a save that returns ErrObsoleteBuild
C17_ObsoleteStep ==
    calls' # calls /\ lastCall'.err = ErrObsoleteBuild

C17_Step ==
    /\ mon.err # NilErr => mon'.err = mon.err
    /\ \A e \in C17_Reports :
          (e # NilErr /\ mon.err = NilErr) => (mon'.err = e /\ mon'.ctxDone)
    /\ mon'.err # mon.err => mon'.err \in C17_Reports
    /\ mon'.err \notin {ErrUnknownPipelineURL, ErrObsoleteBuild}
    /\ (C17_UnknownURLStep \/ C17_ObsoleteStep) =>
          /\ mon'.err = mon.err
          /\ mon'.ctxDone = mon.ctxDone
          /\ \A u \in URLs : tasks'[u].ctxDone = tasks[u].ctxDone
    /\ \A u \in URLs :
          (tasks[u].pc = "broadcastMonitorPipeline" /\ tasks'[u].pc = "errc")
              => tasks'[u].err # ErrUnknownPipelineURL

\* C17: MonitorPipelines keeps the first non-nil error it receives from errc,
\* cancels its context when it keeps it, never replaces it by a later one and
\* returns it; a broadcast that returns ErrUnknownPipelineURL sends nothing on
\* errc and a save that returns ErrObsoleteBuild changes neither the error
\* nor any context.
C17_FirstErrorIsKept ==
    [][C17_Step]_vars /\ [](mon.pc = "returned" => (mon.err # NilErr => mon.ctxDone))

\* C17: MonitorPipelines returned the error of broadcastMonitorRefStatus, kept
\* before the error of a broadcast of a URL; another broadcast returned
\* ErrUnknownPipelineURL and a save returned ErrObsoleteBuild.
C17_Witness ==
    /\ mon.pc = "returned"
    /\ mon.err = ErrProvider
    /\ stream.err = ErrProvider
    /\ \E u, v \in URLs :
          /\ tasks[u].pc = "done" /\ tasks[u].err = ContextCanceled
          /\ tasks[v].pc = "done" /\ tasks[v].err = ErrUnknownPipelineURL

\* MonitorPipelines returned and none of its goroutines is left: the stream of
\* commits, the loop over commitc, the broadcasts with their pollers and the
\* goroutines sending ticks
C18_Terminated ==
    /\ mon.pc = "returned"
    /\ stream.pc = "done"
    /\ mon.consumer = "done"
    /\ \A u \in URLs : tasks[u].pc \in {"none", "done"}
    /\ \A o \in TickOrigins : ticks[o].sending = 0

\* the context of MonitorPipelines is done, or a child sends a non-nil error
\* on errc
C18_Stopping ==
    /\ mon.pc = "range"
    /\ \/ mon.ctxDone
       \/ stream.pc = "errc" /\ stream.err # NilErr
       \/ \E u \in URLs : tasks[u].pc = "errc" /\ tasks[u].err # NilErr

\* C18: once the context of MonitorPipelines is done or a child sent a non-nil
\* error on errc, and with provider calls that return once their context is
\* done, MonitorPipelines returns and every goroutine it started ends, whether
\* or not anyone receives from updates.
C18_EverythingTerminates == C18_Stopping ~> C18_Terminated

\* C18: everything ended after an error of a broadcast, and a tick of a poller
\* was never received
C18_Witness ==
    /\ C18_Terminated
    /\ mon.err = ErrProvider
    /\ stream.err = ContextCanceled
    /\ \E u \in URLs :
          /\ tasks[u].err = ErrProvider
          /\ tasks[u].saves > 0
          /\ ticks[u].received = 0
    /\ ticks[CommitTicks].received = 0

\* the most ticks one origin can start
C19_Ticks == 1..(MaxCommits + MaxTaskSaves)

\* the context handed to the goroutines that send the ticks of o is done: the
\* context of MonitorPipelines derived at line 727 or, for the pollers of a
\* URL, the context derived from it at line 599
C19_ContextDone(o) ==
    mon.ctxDone \/ (o \in URLs /\ tasks[o].ctxDone)

\* a commit saved by MonitorPipelines starts the sending of one tick, and so
\* does a pipeline save that a poller had accepted
C19_Step ==
    /\ (stream.pc = "commitc" /\ stream'.pc # "commitc" /\ calls' # calls) =>
          ticks'[CommitTicks].sending = ticks[CommitTicks].sending + 1
    /\ \A u \in URLs :
          (tasks'[u].saves > tasks[u].saves /\ lastCall'.err = NilErr) =>
              ticks'[u].sending = ticks[u].sending + 1
    /\ \A o \in TickOrigins :
          ticks'[o].sending < ticks[o].sending =>
              \/ ticks'[o].received = ticks[o].received + 1
              \/ C19_ContextDone(o)

\* C19: with a consumer that keeps receiving from updates, every commit saved
\* by MonitorPipelines and every pipeline save accepted by a poller starts the
\* sending of a tick, and that tick is received unless the context handed to
\* the sending goroutine is done.
C19_TicksAreDelivered ==
    /\ [][C19_Step]_vars
    /\ \A o \in TickOrigins : \A k \in C19_Ticks :
          (mon.pc # "idle" /\ ticks[o].sending + ticks[o].received >= k)
              ~> (ticks[o].received >= k \/ C19_ContextDone(o))

\* C19: the ticks of two saved commits and of an accepted pipeline save were
\* received, and no context is done
C19_Witness ==
    /\ mon.pc = "range"
    /\ ~mon.ctxDone
    /\ ticks[CommitTicks].received = MaxCommits
    /\ \E u \in URLs :
          /\ ~tasks[u].ctxDone
          /\ tasks[u].saves > 0
          /\ ticks[u].received > 0

(***************************************************************************)
(* cache.go: the use of Cache.mutex.  An operation is the sequence of the  *)
(* instructions that matter to the mutex on one path through its code:     *)
(* Lock, Unlock (deferred: at the return) and the calls of a provider.     *)
(***************************************************************************)
Lock == "Lock"
Unlock == "Unlock"
ProviderCalls == {"BuildFromURL", "Log", "RefStatuses", "Commit"}

\* SavePipeline (lines 438-439), SaveCommit (469-470), Cache.Commit (504-505),
\* Pipelines (511-512), PipelinesByRef (522-523) and Pipeline (794-795)
LockedCode == <<Lock, Unlock>>

\* Step: Pipeline at line 806, then its own critical section (lines 811-812)
\* when the pipeline exists
StepCode(exists) ==
    LockedCode \o (IF exists THEN LockedCode ELSE <<>>)

\* LogCode with the call of the provider inside a critical section
LogCodeUnderMutex(exists, valid) ==
    StepCode(exists) \o (IF exists /\ ~valid THEN <<Lock, "Log", Unlock>> ELSE <<>>)

\* Log: Step at line 848; when the step exists and has no valid log, Pipeline
\* at line 855 and provider.Log at line 864
LogCode(exists, valid) ==
    StepCode(exists) \o (IF exists /\ ~valid THEN LockedCode \o <<"Log">> ELSE <<>>)

\* one iteration of monitorPipeline: BuildFromURL at line 554 and, when it
\* returned no error, SavePipeline at line 561
monitorPipelineCode(fetched) ==
    <<"BuildFromURL">> \o (IF fetched THEN LockedCode ELSE <<>>)

\* monitorRefStatuses: Commit at line 57 and, when it returned no error,
\* RefStatuses at line 76
monitorRefStatusesCode(found) ==
    <<"Commit">> \o (IF found THEN <<"RefStatuses">> ELSE <<>>)

\* the goroutines: a poller, a monitor of ref statuses, the loop of
\* MonitorPipelines that saves the commits, a reader and a caller of Log
Goroutines == {"monitorPipeline", "monitorRefStatuses", "MonitorPipelines", "reader", "Log"}

\* the operations a goroutine can run
Programs(g) ==
    CASE g = "monitorPipeline" -> {monitorPipelineCode(fetched) : fetched \in BOOLEAN}
      [] g = "monitorRefStatuses" -> {monitorRefStatusesCode(found) : found \in BOOLEAN}
      [] g = "MonitorPipelines" -> {LockedCode}
      [] g = "reader" -> {LockedCode} \cup {StepCode(exists) : exists \in BOOLEAN}
      [] g = "Log" -> {LogCode(exists, valid) : exists \in BOOLEAN, valid \in BOOLEAN}

\* the goroutine g starts an operation
StartOperation(g, code) ==
    /\ goroutines[g].ops = <<>>
    /\ goroutines[g].started < MaxOperations
    /\ goroutines' = [goroutines EXCEPT ![g].ops = code, ![g].started = @ + 1]
    /\ UNCHANGED mutex

\* c.mutex.Lock() returns once the mutex is unlocked
LockMutex(g) ==
    /\ goroutines[g].ops # <<>>
    /\ Head(goroutines[g].ops) = Lock
    /\ mutex = NoGoroutine
    /\ mutex' = g
    /\ goroutines' = [goroutines EXCEPT ![g].ops = Tail(@), ![g].last = Lock]

\* c.mutex.Unlock()
UnlockMutex(g) ==
    /\ goroutines[g].ops # <<>>
    /\ Head(goroutines[g].ops) = Unlock
    /\ mutex' = NoGoroutine
    /\ goroutines' = [goroutines EXCEPT ![g].ops = Tail(@), ![g].last = Unlock]

\* the call of a provider, which takes no part in the mutex
CallProvider(g) ==
    /\ goroutines[g].ops # <<>>
    /\ Head(goroutines[g].ops) \in ProviderCalls
    /\ goroutines' = [goroutines EXCEPT ![g].ops = Tail(@), ![g].last = Head(goroutines[g].ops)]
    /\ UNCHANGED mutex

(***************************************************************************)
(* SpecMutex: goroutines running operations of the cache concurrently      *)
(***************************************************************************)
InitMutex ==
    /\ InitCache
    /\ IdleAgg
    /\ IdleBroadcast
    /\ IdleRefStatus
    /\ IdlePoller
    /\ IdleMonitor
    /\ IdleScenarios
    /\ mutex = NoGoroutine
    /\ goroutines = [g \in Goroutines |-> [ops |-> <<>>, last |-> "", started |-> 0]]

OutsideMutex == <<cacheVars, aggVars, broadcastVars, refVars, pollVars, monVars, scenarioVars>>

DoStartOperation ==
    /\ \E g \in Goroutines : \E code \in Programs(g) : StartOperation(g, code)
    /\ UNCHANGED OutsideMutex

DoLockMutex ==
    /\ \E g \in Goroutines : LockMutex(g)
    /\ UNCHANGED OutsideMutex

DoUnlockMutex ==
    /\ \E g \in Goroutines : UnlockMutex(g)
    /\ UNCHANGED OutsideMutex

DoCallProvider ==
    /\ \E g \in Goroutines : CallProvider(g)
    /\ UNCHANGED OutsideMutex

NextMutex ==
    \/ DoStartOperation
    \/ DoLockMutex
    \/ DoUnlockMutex
    \/ DoCallProvider

SpecMutex == InitMutex /\ [][NextMutex]_vars

\* C20: in every interleaving of a poller, a monitor of ref statuses, the
\* saving of commits, a reader and a caller of Log, a goroutine that is about
\* to call a provider (BuildFromURL, Log, RefStatuses, Commit) or to lock the
\* mutex does not hold the mutex, and a goroutine that unlocks it holds it.
C20_MutexDiscipline ==
    \A g \in DOMAIN goroutines :
        goroutines[g].ops # <<>> =>
            LET next == Head(goroutines[g].ops)
            IN /\ next \in ProviderCalls \cup {Lock} => mutex # g
               /\ next = Unlock => mutex = g

\* C20: Log called its provider after Step and Pipeline, while the poller
\* holds the mutex in SavePipeline after its BuildFromURL
C20_Witness ==
    /\ goroutines["Log"].last = "Log"
    /\ goroutines["Log"].started = MaxOperations
    /\ mutex = "monitorPipeline"
    /\ goroutines["monitorRefStatuses"].last = "RefStatuses"
    /\ goroutines["reader"].last = Unlock

(***************************************************************************)
(* cache.go: two pollers save two finished versions of one pipeline, the   *)
(* older p1 and the more recent p2.  SavePipeline holds the mutex from its *)
(* first line to its return (lines 438-439): the two calls run one after   *)
(* the other, in either order.                                             *)
(***************************************************************************)
RacePairs ==
    {pair \in PipelineInputs \X PipelineInputs :
        /\ Key(pair[1]) = Key(pair[2])
        /\ NotActive(pair[1].State)
        /\ NotActive(pair[2].State)
        /\ Before(pair[1].UpdatedAt, pair[2].UpdatedAt)}

RacePipeline(i) == IF i = 1 THEN race.p1 ELSE race.p2
RaceRef(i) == IF i = 1 THEN race.ref1 ELSE race.ref2

\* the cache holds nothing under the key of p, or a build updated before p
HoldsNothingAsRecent(p) ==
    \/ Key(p) \notin DOMAIN pipelineByKey
    \/ Before(pipelineByKey[Key(p)].val.UpdatedAt, p.UpdatedAt)

\* another call on the cache, before the pollers save or after they did
RaceOtherCall ==
    /\ \/ race.pc = "before" /\ race.before < MaxOtherCalls
          /\ race' = [race EXCEPT !.before = @ + 1]
       \/ race.pc = "after" /\ race.between < MaxOtherCalls
          /\ race' = [race EXCEPT !.between = @ + 1]
    /\ \/ \E ref \in Refs, p \in PipelineInputs : SavePipeline(ref, p)
       \/ \E ref \in Refs, commit \in CommitInputs : SaveCommit(ref, commit)

\* the poller i gets the mutex and saves its pipeline (line 561)
RacePollerSaves(i) ==
    /\ race.pc \in {"before", "racing"}
    /\ i \in race.left
    /\ SavePipeline(RaceRef(i), RacePipeline(i))
    /\ race' = [race EXCEPT
                   !.pc = IF race.left = {i} THEN "after" ELSE "racing",
                   !.left = @ \ {i},
                   !.order = Append(@, i),
                   !.fresh = IF race.pc = "before" THEN HoldsNothingAsRecent(race.p2) ELSE @]

\* a pipeline identical to p2 is saved for the ref of p2
RaceLaterSave ==
    /\ race.pc = "after"
    /\ SavePipeline(race.ref2, race.p2)
    /\ race' = [race EXCEPT !.pc = "done", !.later = lastCall'.err]

(***************************************************************************)
(* SpecRace: any calls, the saves of the two pollers, any calls, and the   *)
(* save of a pipeline identical to p2                                      *)
(***************************************************************************)
InitRace ==
    /\ InitCache
    /\ IdleAgg
    /\ IdleBroadcast
    /\ IdleRefStatus
    /\ IdlePoller
    /\ IdleMonitor
    /\ IdleLocks
    /\ IdleTimeline
    /\ IdleMemory
    /\ IdleViews
    /\ \E pair \in RacePairs, ref1 \in Refs, ref2 \in Refs :
          race = [pc |-> "before", p1 |-> pair[1], p2 |-> pair[2],
                  ref1 |-> ref1, ref2 |-> ref2, left |-> {1, 2}, order |-> <<>>,
                  before |-> 0, between |-> 0, fresh |-> TRUE, later |-> NilErr]

OutsideRace ==
    <<aggVars, broadcastVars, refVars, pollVars, monVars, lockVars, timeline, memory, viewVars>>

DoRaceOtherCall == RaceOtherCall /\ UNCHANGED OutsideRace

DoRacePollerSaves ==
    /\ \E i \in {1, 2} : RacePollerSaves(i)
    /\ UNCHANGED OutsideRace

DoRaceLaterSave == RaceLaterSave /\ UNCHANGED OutsideRace

NextRace ==
    \/ DoRaceOtherCall
    \/ DoRacePollerSaves
    \/ DoRaceLaterSave

SpecRace == InitRace /\ [][NextRace]_vars

\* the cache holds p2 under its key, and the index of the ref of p2 holds the
\* same build
C21_HoldsP2 ==
    LET k == Key(race.p2) IN
    /\ k \in DOMAIN pipelineByKey
    /\ pipelineByKey[k].val = race.p2
    /\ race.ref2 \in DOMAIN pipelineByRef
    /\ k \in DOMAIN pipelineByRef[race.ref2]
    /\ pipelineByRef[race.ref2][k] = pipelineByKey[k]

\* C21 as stated: whatever the cache held before and whatever was called
\* since, after the saves of the two pollers the cache holds p2 under the key
\* and a later save of a pipeline identical to p2 for the same ref returns
\* ErrObsoleteBuild.
C21_P2WinsFromAnyCache ==
    /\ (race.pc = "after" /\ race.between = 0) =>
          (Key(race.p2) \in DOMAIN pipelineByKey
           /\ pipelineByKey[Key(race.p2)].val = race.p2)
    /\ race.pc = "done" => race.later = ErrObsoleteBuild

\* C21: when the cache held under the key nothing, or a build updated before
\* p2, then in either order of the two saves the cache holds p2 under the key
\* afterwards, and the save of a pipeline identical to p2 for the ref of p2
\* that comes next returns ErrObsoleteBuild and leaves p2 in the cache.
C21_P2Wins ==
    (race.pc \in {"after", "done"} /\ race.fresh /\ race.between = 0) =>
        /\ C21_HoldsP2
        /\ race.pc = "done" => race.later = ErrObsoleteBuild

\* C21: p2 was saved first and p1 second, for the same ref, on a cache that
\* held an older build; p1 was rejected and so was the save that came next
C21_Witness ==
    /\ race.pc = "done"
    /\ race.order = <<2, 1>>
    /\ race.ref1 = race.ref2
    /\ race.before > 0
    /\ race.fresh
    /\ race.between = 0
    /\ race.later = ErrObsoleteBuild
    /\ C21_HoldsP2

(***************************************************************************)
(* cache.go: the values sent on updates.  The goroutines of lines 563-568  *)
(* and 748-756 run "select { case updates <- time.Now(): ... }": the       *)
(* operand time.Now() is evaluated when the goroutine enters the select,   *)
(* and the goroutine then waits for a receiver.  Which of several waiting  *)
(* senders a receive takes is not specified.                               *)
(***************************************************************************)
\* the loop of MonitorPipelines over commitc and two pollers
Emitters == {"MonitorPipelines", "monitorPipeline 1", "monitorPipeline 2"}

\* the goroutines that send ticks: the n-th started by each emitter
TickSenders == Emitters \X (1..MaxTaskSaves)

\* time passes
ClockAdvances ==
    /\ timeline.now < MaxTime
    /\ timeline' = [timeline EXCEPT !.now = @ + 1]

\* lines 563 and 748: after a save, the emitter starts its next goroutine
TickSenderStarts(g) ==
    /\ timeline.senders[g].pc = "none"
    /\ \A n \in 1..(g[2] - 1) : timeline.senders[<<g[1], n>>].pc # "none"
    /\ timeline' = [timeline EXCEPT !.senders[g].pc = "go"]

\* lines 565 and 751: the goroutine enters the select and evaluates time.Now()
TickSenderReadsClock(g) ==
    /\ timeline.senders[g].pc = "go"
    /\ timeline' = [timeline EXCEPT !.senders[g] = [pc |-> "select", t |-> timeline.now]]

\* the consumer receives the value of one of the goroutines waiting to send
TickValueReceived(g) ==
    /\ timeline.senders[g].pc = "select"
    /\ timeline' = [timeline EXCEPT !.senders[g].pc = "done",
                                    !.received = Append(@, timeline.senders[g].t)]

(***************************************************************************)
(* SpecTimestamps: the goroutines sending ticks, the clock and a consumer  *)
(***************************************************************************)
InitTimestamps ==
    /\ InitCache
    /\ IdleAgg
    /\ IdleBroadcast
    /\ IdleRefStatus
    /\ IdlePoller
    /\ IdleMonitor
    /\ IdleLocks
    /\ IdleRace
    /\ IdleMemory
    /\ IdleViews
    /\ timeline = [now |-> 1, senders |-> [g \in TickSenders |-> [pc |-> "none", t |-> 0]],
                   received |-> <<>>]

OutsideTimestamps ==
    <<cacheVars, aggVars, broadcastVars, refVars, pollVars, monVars, lockVars, race, memory,
      viewVars>>

DoClockAdvances == ClockAdvances /\ UNCHANGED OutsideTimestamps

DoTickSenderStarts ==
    /\ \E g \in TickSenders : TickSenderStarts(g)
    /\ UNCHANGED OutsideTimestamps

DoTickSenderReadsClock ==
    /\ \E g \in TickSenders : TickSenderReadsClock(g)
    /\ UNCHANGED OutsideTimestamps

DoTickValueReceived ==
    /\ \E g \in TickSenders : TickValueReceived(g)
    /\ UNCHANGED OutsideTimestamps

NextTimestamps ==
    \/ DoClockAdvances
    \/ DoTickSenderStarts
    \/ DoTickSenderReadsClock
    \/ DoTickValueReceived

SpecTimestamps == InitTimestamps /\ [][NextTimestamps]_vars

\* C22: the times received from updates, in the order of their reception,
\* never decrease.
C22_ReceivedNeverDecreases ==
    \A i \in 1..Len(timeline.received) : \A j \in i..Len(timeline.received) :
        timeline.received[i] <= timeline.received[j]

\* C22: a goroutine read the clock, then another goroutine read a later time
\* and was received first
C22_Witness ==
    /\ Len(timeline.received) = 2
    /\ timeline.received[1] > timeline.received[2]

\* C23: when MonitorPipelines returns, none of the goroutines started during
\* the call is left: the stream of commits, the loop over commitc and the
\* broadcasts returned, and no goroutine still waits to send a tick on updates,
\* those started by the pollers included.
C23_NothingLeftAtReturn ==
    mon.pc = "returned" =>
        /\ stream.pc = "done"
        /\ mon.consumer = "done"
        /\ \A u \in URLs : tasks[u].pc \in {"none", "done"}
        /\ \A o \in TickOrigins : ticks[o].sending = 0

\* C23: MonitorPipelines returned nil without its context ever being done,
\* and a goroutine started by a poller still waits to send its tick
C23_Witness ==
    /\ mon.pc = "returned"
    /\ mon.err = NilErr
    /\ ~mon.ctxDone
    /\ ticks[CommitTicks].sending = 0
    /\ \E u \in URLs : ~tasks[u].ctxDone /\ ticks[u].sending > 0

(***************************************************************************)
(* cache.go: the memory behind Commit.Branches and Commit.Tags.  A slice   *)
(* is a view [arr, len] of a backing array, whose length is the capacity   *)
(* of the slice; copying a Commit copies the views, not the arrays.        *)
(***************************************************************************)
NilSlice == [arr |-> 0, len |-> 0]

Cap(arrays, slice) == IF slice.arr = 0 THEN 0 ELSE Len(arrays[slice.arr])

\* the elements seen through a slice
Elements(arrays, slice) == [i \in 1..slice.len |-> arrays[slice.arr][i]]

\* the capacity append gives to the array it allocates for a small slice
GrownCap(cap) == IF cap = 0 THEN 1 ELSE 2 * cap

\* append(slice, x): in place when the capacity allows, in a new array
\* otherwise
AppendTo(arrays, slice, x) ==
    IF slice.len < Cap(arrays, slice)
    THEN [arrays |-> [arrays EXCEPT ![slice.arr][slice.len + 1] = x],
          slice |-> [slice EXCEPT !.len = @ + 1]]
    ELSE LET old == Elements(arrays, slice)
             cells == [i \in 1..GrownCap(Cap(arrays, slice)) |->
                          IF i <= slice.len THEN old[i]
                          ELSE IF i = slice.len + 1 THEN x ELSE ""]
         IN [arrays |-> Append(arrays, cells),
             slice |-> [arr |-> Len(arrays) + 1, len |-> slice.len + 1]]

\* lines 481-485 and 492-496: the names not in previous are appended
RECURSIVE AppendMissingTo(_, _, _, _)
AppendMissingTo(arrays, slice, previous, names) ==
    IF names = <<>>
    THEN [arrays |-> arrays, slice |-> slice]
    ELSE LET next == IF Head(names) \in previous
                     THEN [arrays |-> arrays, slice |-> slice]
                     ELSE AppendTo(arrays, slice, Head(names))
         IN AppendMissingTo(next.arrays, next.slice, previous, Tail(names))

\* the value of a commit whose slices are views of arrays
CommitValue(arrays, commit) ==
    [Sha |-> commit.Sha,
     Branches |-> Elements(arrays, commit.Branches),
     Tags |-> Elements(arrays, commit.Tags)]

\* the commits the callers hold: each list was built by appending its names
\* one by one to a nil slice, as lines 311-314 of GitOriginURL do
HeldCommits ==
    <<[Sha |-> "4cc9a4b", Branches |-> <<"master", "origin/master", "release">>, Tags |-> <<>>],
      [Sha |-> "4cc9a4b", Branches |-> <<"dev">>, Tags |-> <<"v1.0">>],
      [Sha |-> "a24840c", Branches |-> <<"feature">>, Tags |-> <<>>]>>

\* the arrays and the commits after the callers built the first n commits
RECURSIVE BuildHeld(_)
BuildHeld(n) ==
    IF n = 0
    THEN [arrays |-> <<>>, held |-> <<>>]
    ELSE LET before == BuildHeld(n - 1)
             c == HeldCommits[n]
             branches == AppendMissingTo(before.arrays, NilSlice, {}, c.Branches)
             tags == AppendMissingTo(branches.arrays, NilSlice, {}, c.Tags)
         IN [arrays |-> tags.arrays,
             held |-> Append(before.held,
                             [Sha |-> c.Sha, Branches |-> branches.slice, Tags |-> tags.slice])]

\* commitsByRef as the values seen through the slices of the stored commits
StoredValues(arrays, stored) ==
    [ref \in DOMAIN stored |-> CommitValue(arrays, stored[ref])]

\* SaveCommit (lines 468-501) on a commit whose slices are views of arrays
SaveCommitInMemory(ref, commit) ==
    /\ memory.calls < MaxCalls
    /\ LET arrays == memory.arrays
           stored == memory.stored
           after ==
               IF ref \in DOMAIN stored
               THEN LET previousCommit == stored[ref]
                        branches ==
                            AppendMissingTo(arrays, previousCommit.Branches,
                                            Elems(Elements(arrays, previousCommit.Branches)),
                                            Elements(arrays, commit.Branches))
                        tags ==
                            AppendMissingTo(branches.arrays, previousCommit.Tags,
                                            Elems(Elements(branches.arrays, previousCommit.Tags)),
                                            Elements(branches.arrays, commit.Tags))
                    IN [arrays |-> tags.arrays,
                        stored |-> [stored EXCEPT ![ref] =
                                       [previousCommit EXCEPT !.Branches = branches.slice,
                                                              !.Tags = tags.slice]]]
               ELSE [arrays |-> arrays, stored |-> MapPut(stored, ref, commit)]
       IN /\ memory' = [memory EXCEPT !.arrays = after.arrays, !.stored = after.stored,
                                      !.calls = @ + 1]
          /\ commitsByRef' = StoredValues(after.arrays, after.stored)
          /\ pipelineByRef' =
                 IF ref \in DOMAIN stored /\ ShaDiffers(stored[ref], commit)
                 THEN MapDelete(pipelineByRef, ref)
                 ELSE pipelineByRef
          /\ UNCHANGED pipelineByKey
          /\ Called("SaveCommit", ref, NoPipeline, CommitValue(arrays, commit), NilErr)

\* Cache.Commit (lines 503-508): the caller gets a copy of the stored commit,
\* views included, and keeps it
CommitInMemory(ref) ==
    /\ memory.calls < MaxCalls
    /\ ref \in DOMAIN memory.stored
    /\ memory' = [memory EXCEPT
                     !.calls = @ + 1,
                     !.returned = @ \cup
                         {[op |-> "Commit", commit |-> memory.stored[ref],
                           value |-> CommitValue(memory.arrays, memory.stored[ref])]}]
    /\ UNCHANGED cacheVars

\* the pipelines saved between the calls on the commits
MemoryPipelines ==
    {p \in PipelineInputs : p.providerHost = PollerHost /\ p.UpdatedAt = 1}

SavePipelineInMemory(ref, p) ==
    /\ memory.calls < MaxCalls
    /\ SavePipeline(ref, p)
    /\ memory' = [memory EXCEPT !.calls = @ + 1]

\* Cache.Pipeline (lines 793-803): the caller gets *p, a copy of the pipeline
PipelineInMemory(key) ==
    /\ memory.calls < MaxCalls
    /\ Pipeline(key).exists
    /\ memory' = [memory EXCEPT
                     !.calls = @ + 1,
                     !.returned = @ \cup
                         {[op |-> "Pipeline", commit |-> NoCommit,
                           value |-> Pipeline(key).pipeline]}]
    /\ UNCHANGED cacheVars

(***************************************************************************)
(* SpecSnapshot: callers that save the commits they hold and pipelines,    *)
(* and keep the values the cache returns                                   *)
(***************************************************************************)
InitSnapshot ==
    /\ InitCache
    /\ IdleAgg
    /\ IdleBroadcast
    /\ IdleRefStatus
    /\ IdlePoller
    /\ IdleMonitor
    /\ IdleLocks
    /\ IdleRace
    /\ IdleTimeline
    /\ IdleViews
    /\ LET built == BuildHeld(Len(HeldCommits))
       IN memory = [arrays |-> built.arrays, held |-> built.held, stored |-> EmptyMap,
                    returned |-> {}, calls |-> 0]

OutsideSnapshot ==
    <<aggVars, broadcastVars, refVars, pollVars, monVars, lockVars, race, timeline, viewVars>>

DoSaveCommitInMemory ==
    /\ \E ref \in Refs, i \in 1..Len(memory.held) : SaveCommitInMemory(ref, memory.held[i])
    /\ UNCHANGED OutsideSnapshot

DoCommitInMemory ==
    /\ \E ref \in Refs : CommitInMemory(ref)
    /\ UNCHANGED OutsideSnapshot

DoSavePipelineInMemory ==
    /\ \E p \in MemoryPipelines : SavePipelineInMemory(MonitorRef, p)
    /\ UNCHANGED OutsideSnapshot

DoPipelineInMemory ==
    /\ \E key \in PipelineKeys : PipelineInMemory(key)
    /\ UNCHANGED OutsideSnapshot

NextSnapshot ==
    \/ DoSaveCommitInMemory
    \/ DoCommitInMemory
    \/ DoSavePipelineInMemory
    \/ DoPipelineInMemory

SpecSnapshot == InitSnapshot /\ [][NextSnapshot]_vars

\* C24: a value returned by the cache is a snapshot: whatever is saved
\* afterwards, what the caller reads in it is what it held when it was
\* returned.
C24_ReturnedValuesNeverChange ==
    \A r \in memory.returned :
        r.op = "Commit" => CommitValue(memory.arrays, r.commit) = r.value

\* C24: a commit returned for one ref lost its last branch to a commit saved
\* for another ref
C24_Witness ==
    \E r \in memory.returned :
        /\ r.op = "Commit"
        /\ CommitValue(memory.arrays, r.commit).Branches # r.value.Branches
        /\ Len(r.value.Branches) = 4

(***************************************************************************)
(* task: taskFromPipeline and taskFromStep                                 *)
(***************************************************************************)
\* const maxStepIDs
maxStepIDs == 10

\* the deepest pipeline handed to taskFromPipeline, its root counted
MaxDepth == 12

\* utils.NullString{}
NoStepID == [String |-> "", Valid |-> FALSE]

\* [maxStepIDs]utils.NullString{}
NoStepIDs == [i \in 1..maxStepIDs |-> NoStepID]

\* the index of the first element of stepIDs that is not valid, 0 when all are
FirstFree(stepIDs) ==
    IF \A i \in 1..maxStepIDs : stepIDs[i].Valid
    THEN 0
    ELSE CHOOSE i \in 1..maxStepIDs :
             /\ ~stepIDs[i].Valid
             /\ \A j \in 1..(i - 1) : stepIDs[j].Valid

\* the loop of taskFromStep without the panic: a key that is full is kept
SetKeyTruncating(key, ID) ==
    LET i == FirstFree(key.stepIDs)
    IN IF i = 0
       THEN [keySet |-> TRUE, key |-> key]
       ELSE [keySet |-> TRUE,
             key |-> [key EXCEPT !.stepIDs[i] = [String |-> ID, Valid |-> TRUE]]]

\* the loop of taskFromStep: the first element of key.stepIDs that is not
\* valid is set to the id of the step; keySet tells whether there was one
SetKey(key, ID) ==
    LET i == FirstFree(key.stepIDs)
    IN IF i = 0
       THEN [keySet |-> FALSE, key |-> key]
       ELSE [keySet |-> TRUE,
             key |-> [key EXCEPT !.stepIDs[i] = [String |-> ID, Valid |-> TRUE]]]

RECURSIVE taskFromStep(_, _)
RECURSIVE ChildTasks(_, _, _)

\* the loop over s.Children of taskFromStep, from the i-th child on: the tasks of
\* the children in their order, or the panic of the first child that panics
ChildTasks(children, key, i) ==
    IF i > Len(children)
    THEN [panic |-> FALSE, tasks |-> <<>>]
    ELSE LET childTask == taskFromStep(children[i], key)
         IN IF childTask.panic
            THEN [panic |-> TRUE, tasks |-> <<>>]
            ELSE LET rest == ChildTasks(children, key, i + 1)
                 IN IF rest.panic
                    THEN rest
                    ELSE [panic |-> FALSE, tasks |-> <<childTask.task>> \o rest.tasks]

\* taskFromStep(s, ref, key, provider, number): the task with its key, its
\* state, its name and its children, or the panic
taskFromStep(s, key) ==
    LET set == SetKey(key, s.ID)
    IN IF ~set.keySet
       THEN [panic |-> TRUE, task |-> <<>>]
       ELSE LET children == ChildTasks(s.Children, set.key, 1)
            IN IF children.panic
               THEN [panic |-> TRUE, task |-> <<>>]
               ELSE [panic |-> FALSE,
                     task |-> [key |-> set.key, state |-> s.State, name |-> s.Name,
                               children |-> children.tasks]]

\* taskFromPipeline(p, providerByID)
taskFromPipeline(p) ==
    taskFromStep(p.Step, [providerHost |-> p.providerHost, stepIDs |-> NoStepIDs])

\* the ids of the steps handed to taskFromPipeline
StepIDs == {"1", "2"}

\* Step{ID: ID, Children: children}
StepOf(ID, children) ==
    [ID |-> ID, Name |-> ID, State |-> Passed, Children |-> children]

RECURSIVE ChainOfSteps(_, _, _, _)

\* a step at depth level of a pipeline whose deepest step is at depth depth:
\* down to that depth each step has a child, and the step at depth fork has a job
\* without children before it; ids(level) is the id of the step at depth level
ChainOfSteps(level, depth, fork, ids) ==
    LET next == IF level < depth
                THEN <<ChainOfSteps(level + 1, depth, fork, ids)>>
                ELSE <<>>
        job == IF level = fork THEN <<StepOf("job", <<>>)>> ELSE <<>>
    IN StepOf(ids[level], job \o next)

\* the ids along the chain: one id all the way down, or two ids taking turns
ChainIDs == {[level \in 1..MaxDepth |-> "1"],
             [level \in 1..MaxDepth |-> IF level % 2 = 1 THEN "1" ELSE "2"]}

\* the pipelines handed to taskFromPipeline
ProjectedPipelines ==
    {[providerHost |-> host, Step |-> ChainOfSteps(1, depth, fork, ids)] :
         host \in {PollerHost}, depth \in 1..MaxDepth, fork \in 0..MaxDepth, ids \in ChainIDs}

RECURSIVE Depth(_)
RECURSIVE DepthFrom(_, _)

\* the depth of the deepest step among the steps from the i-th on
DepthFrom(children, i) ==
    IF i > Len(children)
    THEN 0
    ELSE LET d == Depth(children[i])
             rest == DepthFrom(children, i + 1)
         IN IF d > rest THEN d ELSE rest

\* the number of steps on the longest path from s down, s counted
Depth(s) == 1 + DepthFrom(s.Children, 1)

\* the application calls taskFromPipeline on a pipeline
Project ==
    /\ projection.pc = "pipeline"
    /\ LET t == taskFromPipeline(projection.p)
       IN projection' = [pc |-> "projected", p |-> projection.p, panic |-> t.panic,
                         task |-> t.task]

\* nothing but the views is in use
IdleOutsideViews ==
    /\ InitCache
    /\ IdleAgg
    /\ IdleBroadcast
    /\ IdleRefStatus
    /\ IdlePoller
    /\ IdleMonitor
    /\ IdleLocks
    /\ IdleRace
    /\ IdleTimeline
    /\ IdleMemory
    /\ IdleStatuses

OutsideViews ==
    <<cacheVars, aggVars, broadcastVars, refVars, pollVars, monVars, lockVars, race,
      timeline, memory, statusVars>>

InitProjection ==
    /\ IdleOutsideViews
    /\ IdleTable
    /\ \E p \in ProjectedPipelines : projection = [pc |-> "pipeline", p |-> p]

DoProject == Project /\ UNCHANGED <<OutsideViews, table>>

NextProjection == DoProject

SpecProjection == InitProjection /\ [][NextProjection]_vars

\* the key of the step reached by path: the ids of path, then no id
PathKey(host, path) ==
    [providerHost |-> host,
     stepIDs |-> [i \in 1..maxStepIDs |->
                     IF i <= Len(path)
                     THEN [String |-> path[i], Valid |-> TRUE]
                     ELSE NoStepID]]

RECURSIVE KeysArePaths(_, _, _, _)

\* t is the task of s, path the ids from the root of the pipeline down to the
\* parent of s: the key of t and of every task below it holds the ids on the
\* path to its step
KeysArePaths(t, s, host, path) ==
    LET here == Append(path, s.ID)
    IN /\ t.key = PathKey(host, here)
       /\ Len(t.children) = Len(s.Children)
       /\ \A i \in 1..Len(s.Children) :
              KeysArePaths(t.children[i], s.Children[i], host, here)

\* C25: taskFromPipeline gives every step the key made of the ids on the path
\* from the root of the pipeline to it; it panics exactly when a step lies
\* deeper than maxStepIDs, the root counted, and never shortens a path.
C25_KeysArePathsOrPanic ==
    projection.pc = "projected" =>
        IF Depth(projection.p.Step) <= maxStepIDs
        THEN /\ ~projection.panic
             /\ KeysArePaths(projection.task, projection.p.Step,
                             projection.p.providerHost, <<>>)
        ELSE projection.panic

\* C25: a pipeline whose deepest step lies one deeper than maxStepIDs was
\* projected, and the projection panicked
C25_Witness ==
    /\ projection.pc = "projected"
    /\ Depth(projection.p.Step) = maxStepIDs + 1
    /\ projection.panic

(***************************************************************************)
(* tui.HierarchicalTable: the rows, the page and the cursor                *)
(***************************************************************************)
\* the ids of the nodes handed to the table run from 1 to MaxNodeID
MaxNodeID == 5

\* the amounts handed to VerticalScroll run from -MaxAmount to MaxAmount
MaxAmount == 3

NodeIDs == 1..MaxNodeID

\* nullInt{}
NoIndex == [Valid |-> FALSE, Int |-> 0]

\* nullInt{Valid: true, Int: i}
Index(i) == [Valid |-> TRUE, Int |-> i]

\* v kept between lower and upper
Bounded(v, lower, upper) ==
    IF v < lower THEN lower ELSE IF v > upper THEN upper ELSE v

\* testNode{id: id, children: children}
Node(id, children) == [id |-> id, children |-> children]

\* the nodes without children of the given ids, in their order
Leaves(ids) == [i \in 1..Len(ids) |-> Node(ids[i], <<>>)]

\* the lists of the ids from one id to another, the empty list among them
ConsecutiveIDs ==
    {[i \in 1..(last - first + 1) |-> first + i - 1] :
         first \in NodeIDs, last \in 0..MaxNodeID}

\* the forests handed to Replace: lists of nodes without children, in
\* increasing order or not, and nodes with children
Forests ==
    {Leaves(ids) : ids \in ConsecutiveIDs}
        \cup {Leaves(<<1, MaxNodeID>>), Leaves(<<2, 3, 4, 1, 5>>),
              Leaves(<<1, 3, 4, 2, 5>>), Leaves(<<2, 1>>)}
        \cup {<<Node(1, Leaves(<<2>>)), Node(3, Leaves(<<4>>))>>,
              <<Node(3, Leaves(<<4>>)), Node(1, Leaves(<<2>>))>>,
              <<Node(1, Leaves(<<2, 3>>)), Node(4, Leaves(<<5>>))>>,
              <<Node(1, <<Node(2, Leaves(<<3>>))>>), Node(4, <<>>)>>}

\* the heights of the tables, the line of the header counted
Heights == {3, 4}

\* the amounts handed to VerticalScroll
Amounts == (0 - MaxAmount)..MaxAmount

RECURSIVE IDsOf(_, _)

\* the ids of the nodes of the forest from its i-th node on, at every depth
IDsOf(nodes, i) ==
    IF i > Len(nodes)
    THEN {}
    ELSE {nodes[i].id} \cup IDsOf(nodes[i].children, 1) \cup IDsOf(nodes, i + 1)

RECURSIVE VisiblePaths(_, _, _, _)

\* the paths of the rows of the forest from its i-th node on, the nodes being
\* below parent: each node, then its children when its flag traversable is set
VisiblePaths(nodes, i, parent, traversable) ==
    IF i > Len(nodes)
    THEN <<>>
    ELSE LET path == Append(parent, nodes[i].id)
             below == IF nodes[i].id \in traversable
                      THEN VisiblePaths(nodes[i].children, 1, path, traversable)
                      ELSE <<>>
         IN <<path>> \o below \o VisiblePaths(nodes, i + 1, parent, traversable)

\* the id of the node of a row
NodeIDOf(path) == path[Len(path)]

\* the index, counted from 0, of the row of the node id, -1 when it has no row
RowOf(rows, id) ==
    IF \E i \in 1..Len(rows) : NodeIDOf(rows[i]) = id
    THEN (CHOOSE i \in 1..Len(rows) : NodeIDOf(rows[i]) = id) - 1
    ELSE 0 - 1

\* the number of rows of a page: the height without the line of the header
PageSize(height) == height - 1

\* the largest page index that fills the viewport of a table of n rows
LastPage(n, height) ==
    IF n - PageSize(height) > 0 THEN n - PageSize(height) ELSE 0

\* the page index showing the cursor that is taken whatever the page index was:
\* the row of the cursor comes first on the page
PageAtCursor(page, cursor, n, height) == Bounded(cursor, 0, LastPage(n, height))

\* the page index is left where it was
PageKept(page, cursor, n, height) == page

\* the page index showing the row of the cursor in a table of n rows: the page
\* is moved up or down as little as it takes, and it never leaves the viewport
\* unfilled
PageShowing(page, cursor, n, height) ==
    LET shown == IF cursor < page
                 THEN cursor
                 ELSE IF cursor > page + PageSize(height) - 1
                      THEN cursor - PageSize(height) + 1
                      ELSE page
    IN Bounded(shown, 0, LastPage(n, height))

\* the id of the node of the row of the cursor, 0 when the cursor is on no row
CursorNode(rows, cursorIndex) ==
    IF cursorIndex.Valid THEN NodeIDOf(rows[cursorIndex.Int + 1]) ELSE 0

\* what is remembered of the operation applied last: its name and its amount,
\* whether the forest is the one the table had, the indexes before it and, for
\* Replace, the node of the cursor and the operation before it
Applied(op, amount, nodes) ==
    [op |-> op, amount |-> amount, same |-> nodes = table.nodes,
     before |-> IF op = "SetTraversable"
                THEN [pageIndex |-> NoIndex, cursorIndex |-> NoIndex, node |-> 0,
                      op |-> "none"]
                ELSE IF op = "VerticalScroll"
                THEN [pageIndex |-> table.pageIndex, cursorIndex |-> table.cursorIndex,
                      node |-> 0, op |-> "none"]
                ELSE [pageIndex |-> table.pageIndex, cursorIndex |-> table.cursorIndex,
                      node |-> CursorNode(table.rows, table.cursorIndex),
                      op |-> table.last.op]]

\* the columns of the table
Columns == {"column1", "column2"}

\* SortBy was never called
NoOrder == [column |-> "", ascending |-> TRUE]

\* what the comparator of a node compares for a column: the id of the node for
\* column1, and for column2 a value that several nodes share
ColumnValue(node, column) ==
    IF column = "column1" THEN node.id ELSE (node.id + 1) \div 2

\* node.Compare(other, column, v)
Compare(node, other, column) ==
    IF ColumnValue(node, column) < ColumnValue(other, column)
    THEN 0 - 1
    ELSE IF ColumnValue(node, column) = ColumnValue(other, column)
    THEN 0
    ELSE 1

\* the order is taken for ascending, whatever was asked
ComesFirstAscending(node, other, order) == Compare(node, other, order.column) < 0

\* node is to come before other in the order
ComesFirst(node, other, order) ==
    IF order.ascending
    THEN Compare(node, other, order.column) < 0
    ELSE Compare(node, other, order.column) > 0

RECURSIVE InsertNode(_, _, _, _)

\* node put in the sorted list from its i-th element on: before the first
\* element that is to come after it, and so after the elements equal to it
InsertNode(sorted, node, order, i) ==
    IF i > Len(sorted)
    THEN Append(sorted, node)
    ELSE IF ComesFirst(node, sorted[i], order)
    THEN SubSeq(sorted, 1, i - 1) \o <<node>> \o SubSeq(sorted, i, Len(sorted))
    ELSE InsertNode(sorted, node, order, i + 1)

RECURSIVE SortForest(_, _)
RECURSIVE SortNodes(_, _, _, _)

\* the nodes from the i-th on put one by one in the sorted list, each with its
\* children sorted: a stable sort of the nodes, at every level
SortNodes(sorted, nodes, order, i) ==
    IF i > Len(nodes)
    THEN sorted
    ELSE SortNodes(InsertNode(sorted,
                              Node(nodes[i].id, SortForest(nodes[i].children, order)),
                              order, 1),
                   nodes, order, i + 1)

\* the forest sorted in the order
SortForest(nodes, order) ==
    IF order = NoOrder THEN nodes ELSE SortNodes(<<>>, nodes, order, 1)

\* the forest handed to Replace is kept in the order in which it was supplied
LoadedNodesAsSupplied(nodes, order) == nodes

\* the forest handed to Replace, in the order of the last SortBy
LoadedNodes(nodes, order) == SortForest(nodes, order)

\* HierarchicalTable{height: height}
NewTable(height) ==
    [pc |-> "table", nodes |-> <<>>, traversable |-> {}, rows |-> <<>>,
     loaded |-> <<>>, order |-> NoOrder,
     height |-> height, pageIndex |-> NoIndex, cursorIndex |-> NoIndex,
     last |-> [op |-> "new", amount |-> 0, same |-> FALSE,
               before |-> [pageIndex |-> NoIndex, cursorIndex |-> NoIndex,
                           node |-> 0, op |-> "none"]]]

\* VerticalScroll(amount): nothing on a table without rows or without indexes;
\* the cursor moves by amount and stops at the first and at the last row, and
\* the page follows it
VerticalScroll(amount) ==
    /\ table.pc = "table"
    /\ LET n == Len(table.rows)
           cursor == Bounded(table.cursorIndex.Int + amount, 0, n - 1)
           page == PageShowing(table.pageIndex.Int, cursor, n, table.height)
       IN IF n = 0 \/ ~table.cursorIndex.Valid \/ ~table.pageIndex.Valid
          THEN table' = [table EXCEPT !.last = Applied("VerticalScroll", amount, table.nodes)]
          ELSE table' = [table EXCEPT !.cursorIndex = Index(cursor),
                                      !.pageIndex = Index(page),
                                      !.last = Applied("VerticalScroll", amount,
                                                       table.nodes)]

\* no flag survives Replace
NoTraversable(traversable, nodes) == {}

\* the flags traversable kept by Replace: those of the ids of the new forest
KeptTraversable(traversable, nodes) == traversable \cap IDsOf(nodes, 1)

\* the cursor moves whatever its index
NeverStaysOnFirstRow(cursorIndex, pageIndex) == FALSE

\* Replace leaves the indexes of a table that was never scrolled where they are
StaysOnFirstRow(cursorIndex, pageIndex) == cursorIndex.Int = 0 /\ pageIndex.Int = 0

\* the cursor follows no node
NoFollowedRow(rows, cursorIndex, before) == 0 - 1

\* the index in rows of the node the cursor was on before Replace, -1 when the
\* node has no row any more
FollowedRow(rows, cursorIndex, before) ==
    RowOf(rows, NodeIDOf(before[cursorIndex.Int + 1]))

\* the page index and the cursor index after Replace, rows being the new rows
\* and before the rows replaced
IndexesAfterReplace(rows, before, pageIndex, cursorIndex, height) ==
    LET n == Len(rows)
    IN IF n = 0 \/ height = 0
       THEN [pageIndex |-> NoIndex, cursorIndex |-> NoIndex]
       ELSE IF ~cursorIndex.Valid \/ ~pageIndex.Valid
       THEN [pageIndex |-> Index(0), cursorIndex |-> Index(0)]
       ELSE IF StaysOnFirstRow(cursorIndex, pageIndex)
       THEN [pageIndex |-> Index(0), cursorIndex |-> Index(0)]
       ELSE LET row == FollowedRow(rows, cursorIndex, before)
            IN IF row >= 0
               THEN \* the node keeps its place on the page
                    [pageIndex |-> Index(Bounded(pageIndex.Int + row - cursorIndex.Int,
                                                 0, LastPage(n, height))),
                     cursorIndex |-> Index(row)]
               ELSE \* the node is gone: the cursor keeps its index
                    LET cursor == Bounded(cursorIndex.Int, 0, n - 1)
                    IN [pageIndex |-> Index(PageShowing(pageIndex.Int, cursor, n, height)),
                        cursorIndex |-> Index(cursor)]

\* the table with the forest nodes, supplied as loaded and sorted in the order:
\* the flags of its nodes are kept, the rows are computed again and the indexes
\* follow the node of the cursor
Reloaded(nodes, loaded, order, applied) ==
    LET traversable == KeptTraversable(table.traversable, nodes)
        rows == VisiblePaths(nodes, 1, <<>>, traversable)
        indexes == IndexesAfterReplace(rows, table.rows, table.pageIndex,
                                       table.cursorIndex, table.height)
    IN [table EXCEPT !.nodes = nodes,
                     !.loaded = loaded,
                     !.order = order,
                     !.traversable = traversable,
                     !.rows = rows,
                     !.pageIndex = indexes.pageIndex,
                     !.cursorIndex = indexes.cursorIndex,
                     !.last = applied]

\* Replace(nodes)
Replace(nodes) ==
    /\ table.pc = "table"
    /\ LET sorted == LoadedNodes(nodes, table.order)
       IN table' = Reloaded(sorted, nodes, table.order, Applied("Replace", 0, sorted))

\* SortBy(column, ascending): the forest of the table is sorted at every level
\* and the order is kept for the forests to come
SortBy(column, ascending) ==
    /\ table.pc = "table"
    /\ LET order == [column |-> column, ascending |-> ascending]
       IN table' = Reloaded(SortForest(table.nodes, order), table.loaded, order,
                            [op |-> "SortBy", amount |-> 0, same |-> TRUE,
                             before |-> [pageIndex |-> table.pageIndex,
                                         cursorIndex |-> table.cursorIndex,
                                         node |-> CursorNode(table.rows,
                                                             table.cursorIndex),
                                         op |-> table.last.op],
                             order |-> table.order])

RECURSIVE NodeOf(_, _, _)

\* the node of the given id among the nodes of the forest from the i-th on, at
\* every depth; a node without id when there is none
NodeOf(nodes, i, id) ==
    IF i > Len(nodes)
    THEN Node(0, <<>>)
    ELSE IF nodes[i].id = id
    THEN nodes[i]
    ELSE LET below == NodeOf(nodes[i].children, 1, id)
         IN IF below.id = id THEN below ELSE NodeOf(nodes, i + 1, id)

\* the node of the cursor is closed right after it was opened
ClosesOpened(traversable) ==
    ~traversable /\ table.last.op = "SetTraversable" /\ table.last.traversable

\* what is remembered of a SetTraversable: its arguments and the node of the
\* cursor; when the node is opened, whether it had its flag set and the rows
\* before; when it is closed right after, the same as of when it was opened
AppliedTraversable(traversable, recursive, id) ==
    [op |-> "SetTraversable", amount |-> 0, same |-> TRUE,
     before |-> [pageIndex |-> NoIndex, cursorIndex |-> NoIndex, node |-> id,
                 op |-> "none"],
     traversable |-> traversable, recursive |-> recursive,
     follows |-> ClosesOpened(traversable),
     was |-> IF ClosesOpened(traversable) THEN table.last.was
             ELSE id \in table.traversable,
     rows |-> IF traversable THEN table.rows
              ELSE IF ClosesOpened(traversable) THEN table.last.rows ELSE <<>>]

\* SetTraversable(traversable, recursive): the flag of the node of the cursor, and
\* of the nodes below it when recursive is set; the rows are computed again
SetTraversable(traversable, recursive) ==
    /\ table.pc = "table"
    /\ table.cursorIndex.Valid
    /\ LET id == NodeIDOf(table.rows[table.cursorIndex.Int + 1])
           ids == IF recursive
                  THEN {id} \cup IDsOf(NodeOf(table.nodes, 1, id).children, 1)
                  ELSE {id}
           flags == IF traversable
                    THEN table.traversable \cup ids
                    ELSE table.traversable \ ids
           rows == VisiblePaths(table.nodes, 1, <<>>, flags)
           page == PageShowing(table.pageIndex.Int, table.cursorIndex.Int, Len(rows),
                               table.height)
       IN table' = [table EXCEPT !.traversable = flags,
                                 !.rows = rows,
                                 !.pageIndex = Index(page),
                                 !.last = AppliedTraversable(traversable, recursive, id)]

InitTable ==
    /\ IdleOutsideViews
    /\ IdleProjection
    /\ \E height \in Heights : table = NewTable(height)

DoVerticalScroll ==
    /\ \E amount \in Amounts : VerticalScroll(amount)
    /\ UNCHANGED <<OutsideViews, projection>>

DoReplace ==
    /\ \E nodes \in Forests : Replace(nodes)
    /\ UNCHANGED <<OutsideViews, projection>>

DoSetTraversable ==
    /\ \E traversable \in BOOLEAN, recursive \in BOOLEAN :
           SetTraversable(traversable, recursive)
    /\ UNCHANGED <<OutsideViews, projection>>

NextTable ==
    \/ DoVerticalScroll
    \/ DoReplace
    \/ DoSetTraversable

SpecTable == InitTable /\ [][NextTable]_vars

\* the distance from a to b
Distance(a, b) == IF a < b THEN b - a ELSE a - b

\* a page index that shows the row cursor of a table of n rows and leaves the
\* viewport filled
ShowsCursor(page, cursor, n, height) ==
    /\ page <= cursor
    /\ cursor <= page + PageSize(height) - 1
    /\ 0 <= page
    /\ page <= LastPage(n, height)

\* a step of VerticalScroll: on a table without rows nothing moves and the
\* indexes stay invalid; otherwise the cursor moves by the amount, kept between
\* the first and the last row, and the page index is the nearest to the one
\* before that shows the cursor
C26_Step ==
    (table'.pc = "table" /\ table.pc = "table" /\ table'.last.op = "VerticalScroll") =>
        LET n == Len(table.rows)
            amount == table'.last.amount
        IN /\ table'.rows = table.rows
           /\ IF n = 0
              THEN /\ ~table.pageIndex.Valid /\ ~table.cursorIndex.Valid
                   /\ ~table'.pageIndex.Valid /\ ~table'.cursorIndex.Valid
              ELSE /\ table'.cursorIndex =
                          Index(Bounded(table.cursorIndex.Int + amount, 0, n - 1))
                   /\ table'.pageIndex.Valid
                   /\ ShowsCursor(table'.pageIndex.Int, table'.cursorIndex.Int, n,
                                  table.height)
                   /\ \A page \in 0..n :
                          ShowsCursor(page, table'.cursorIndex.Int, n, table.height) =>
                              Distance(table.pageIndex.Int, table'.pageIndex.Int)
                                  <= Distance(table.pageIndex.Int, page)

\* C26: VerticalScroll(d) on a table with rows sets the cursor to
\* cursor + d kept in [0, rows - 1] and moves the page by the least amount that
\* shows the cursor, the page staying in [0, max(0, rows - P)] with
\* P = height - 1; on a table without rows it changes nothing and the indexes
\* stay invalid.
C26_VerticalScroll == [][C26_Step]_vars

\* C26: a scroll past the last row stopped the cursor there and moved the page
\* to the last one
C26_Witness ==
    /\ table.pc = "table"
    /\ table.last.op = "VerticalScroll"
    /\ table.last.before.cursorIndex.Int + table.last.amount > Len(table.rows) - 1
    /\ table.cursorIndex = Index(Len(table.rows) - 1)
    /\ table.pageIndex.Int > table.last.before.pageIndex.Int
    /\ table.pageIndex.Int = Len(table.rows) - PageSize(table.height)

\* a table of height 3 with 5 rows
C27_Table(t) == t.pc = "table" /\ t.height = 3 /\ Len(t.rows) = 5

\* the two scrolls of the scenario: by 1 from page 0 and cursor 0, then by 3
\* from page 0 and cursor 1, the second one ending on the page index page
C27_Scrolls(page) ==
    (C27_Table(table) /\ table'.pc = "table" /\ table'.last.op = "VerticalScroll"
        /\ table.pageIndex = Index(0)) =>
        /\ (table.cursorIndex = Index(0) /\ table'.last.amount = 1) =>
               (table'.pageIndex = Index(0) /\ table'.cursorIndex = Index(1))
        /\ (table.cursorIndex = Index(1) /\ table'.last.amount = 3) =>
               (table'.pageIndex = Index(page) /\ table'.cursorIndex = Index(4))

\* C27: in a table of height 3 over 5 rows at page 0 and cursor 0, scrolling
\* down by 1 gives page 0 and cursor 1, and scrolling down by 3 more gives
\* page 2 and cursor 4.
C27_ScrollDownTwice == [][C27_Scrolls(2)]_vars

\* C27, amended: the same scrolls give page 0 and cursor 1, then page 3 and
\* cursor 4: the page of a table of height 3 holds 2 rows, and the last row is
\* shown by the page index 3.
C27_ScrollDownToLastPage == [][C27_Scrolls(3)]_vars

\* C27: the second scroll of the scenario was made
C27_Witness ==
    /\ C27_Table(table)
    /\ table.last.op = "VerticalScroll"
    /\ table.last.amount = 3
    /\ table.last.before.pageIndex = Index(0)
    /\ table.last.before.cursorIndex = Index(1)
    /\ table.pageIndex = Index(3)
    /\ table.cursorIndex = Index(4)

\* the forest [{1, [{2}]}, {3, [{4}]}]
C28_Forest == <<Node(1, Leaves(<<2>>)), Node(3, Leaves(<<4>>))>>

\* a step of Replace: a node of the new forest has the flag it had; the rows of
\* a forest replaced by itself right after it was loaded are the same; the
\* forest of the scenario, node 1 opened, shows the rows 1, 1/2 and 3 again
C28_Step ==
    (table.pc = "table" /\ table'.pc = "table" /\ table'.last.op = "Replace") =>
        /\ \A id \in IDsOf(table'.nodes, 1) :
               (id \in table'.traversable) <=> (id \in table.traversable)
        /\ (table'.last.same /\ table.last.op = "Replace") => table'.rows = table.rows
        /\ (table'.last.same /\ table.nodes = C28_Forest /\ table.traversable = {1}) =>
               table'.rows = <<<<1>>, <<1, 2>>, <<3>>>>

\* C28: Replace keeps the flag traversable of every node id of the new forest;
\* Replace with the forest just loaded leaves the paths of the visible rows as
\* they were; [{1,[{2}]},{3,[{4}]}] with node 1 opened and replaced by itself
\* shows the rows 1, 1/2, 3.
C28_ReplaceKeepsTraversable == [][C28_Step]_vars

\* C28: the forest of the scenario, node 1 opened, was replaced by itself
C28_Witness ==
    /\ table.pc = "table"
    /\ table.last.op = "Replace"
    /\ table.last.same
    /\ table.last.before.op = "SetTraversable"
    /\ table.nodes = C28_Forest
    /\ table.traversable = {1}
    /\ table.rows = <<<<1>>, <<1, 2>>, <<3>>>>

\* a step of Replace made with the cursor on a node that has a row afterwards:
\* the cursor is on the row of that node, and the page index keeps the node where
\* it was on the page, as far as the viewport stays filled
C29_Follows ==
    LET n == Len(table'.rows)
        row == RowOf(table'.rows, CursorNode(table.rows, table.cursorIndex))
    IN row >= 0 =>
           /\ table'.cursorIndex = Index(row)
           /\ table'.pageIndex =
                  Index(Bounded(row - (table.cursorIndex.Int - table.pageIndex.Int), 0,
                                LastPage(n, table.height)))

\* a step of Replace made with the cursor on a row
C29_Replaced ==
    /\ table.pc = "table"
    /\ table'.pc = "table"
    /\ table'.last.op = "Replace"
    /\ table.cursorIndex.Valid

\* C29: after a Replace whose forest still shows the node the cursor was on,
\* whatever the index k of the cursor, the cursor index is the new index of
\* that node and the page index keeps the node at its place on the page, kept
\* in [0, max(0, rows - P)].
C29_CursorFollowsNode == [][C29_Replaced => C29_Follows]_vars

\* C29, amended: the same for a cursor that is not on the first row (k > 0).
C29_CursorFollowsNodeBelowFirstRow ==
    [][(C29_Replaced /\ table.cursorIndex.Int > 0) => C29_Follows]_vars

\* C29: the cursor followed its node to another row, and the page could not
\* keep the node at its place without leaving the viewport unfilled
C29_Witness ==
    /\ table.pc = "table"
    /\ table.last.op = "Replace"
    /\ table.last.before.cursorIndex.Int > 0
    /\ table.cursorIndex.Valid
    /\ RowOf(table.rows, table.last.before.node) = table.cursorIndex.Int
    /\ table.cursorIndex.Int # table.last.before.cursorIndex.Int
    /\ table.pageIndex.Int = LastPage(Len(table.rows), table.height)
    /\ table.cursorIndex.Int
           - (table.last.before.cursorIndex.Int - table.last.before.pageIndex.Int)
           > table.pageIndex.Int

\* C30: a Replace with a forest that has rows, made with the cursor index 0
\* and the page index 0, leaves the cursor index 0, also when rows come before
\* the row the cursor was on.
C30_FirstRowStays ==
    [][(table.pc = "table" /\ table'.pc = "table" /\ table'.last.op = "Replace"
          /\ table.cursorIndex = Index(0) /\ table.pageIndex = Index(0)
          /\ Len(table'.rows) > 0) =>
           table'.cursorIndex = Index(0)]_vars

\* C30: rows were put before the row of the cursor, and the cursor index is 0
C30_Witness ==
    /\ table.pc = "table"
    /\ table.last.op = "Replace"
    /\ table.last.before.cursorIndex = Index(0)
    /\ table.last.before.pageIndex = Index(0)
    /\ RowOf(table.rows, table.last.before.node) > 0
    /\ table.cursorIndex = Index(0)

(***************************************************************************)
(* tui.HierarchicalTable: Resize                                           *)
(***************************************************************************)
\* the indexes are left as they are when the height becomes 0
IndexesKeptAfterResize(n, height, pageIndex, cursorIndex) ==
    IF n = 0
    THEN [pageIndex |-> NoIndex, cursorIndex |-> NoIndex]
    ELSE IF ~cursorIndex.Valid \/ ~pageIndex.Valid
    THEN [pageIndex |-> Index(0), cursorIndex |-> Index(0)]
    ELSE [pageIndex |-> Index(PageShowing(pageIndex.Int, cursorIndex.Int, n, height)),
          cursorIndex |-> cursorIndex]

\* the page index and the cursor index of a table of n rows after Resize to
\* height: none with a height of 0 or without rows, the first row when there
\* were none, otherwise the cursor where it was and the page showing it
IndexesAfterResize(n, height, pageIndex, cursorIndex) ==
    IF n = 0 \/ height = 0
    THEN [pageIndex |-> NoIndex, cursorIndex |-> NoIndex]
    ELSE IF ~cursorIndex.Valid \/ ~pageIndex.Valid
    THEN [pageIndex |-> Index(0), cursorIndex |-> Index(0)]
    ELSE [pageIndex |-> Index(PageShowing(pageIndex.Int, cursorIndex.Int, n, height)),
          cursorIndex |-> cursorIndex]

\* Resize(width, height)
Resize(height) ==
    /\ table.pc = "table"
    /\ LET indexes == IndexesAfterResize(Len(table.rows), height, table.pageIndex,
                                         table.cursorIndex)
       IN table' = [table EXCEPT !.height = height,
                                 !.pageIndex = indexes.pageIndex,
                                 !.cursorIndex = indexes.cursorIndex,
                                 !.last = Applied("Resize", height, table.nodes)]

\* the forests handed to Replace where the table is resized
ResizedForests ==
    {Leaves(ids) : ids \in {<<>>, <<1>>, <<1, 2, 3>>, <<1, 2, 3, 4, 5>>}}
        \cup {<<Node(1, Leaves(<<2>>)), Node(3, Leaves(<<4>>))>>}

DoResize ==
    /\ \E height \in {0} \cup Heights : Resize(height)
    /\ UNCHANGED <<OutsideViews, projection>>

DoReplaceResized ==
    /\ \E nodes \in ResizedForests : Replace(nodes)
    /\ UNCHANGED <<OutsideViews, projection>>

NextResize ==
    \/ DoResize
    \/ DoReplaceResized
    \/ DoVerticalScroll
    \/ DoSetTraversable

SpecResize == InitTable /\ [][NextResize]_vars

\* a step of Replace that leaves no row, or of Resize to the height 0, leaves
\* the indexes invalid; a step of Resize from the height 0, set by the Resize
\* before it, to another height leaves both indexes 0 when the table has rows
C31_Step ==
    (table.pc = "table" /\ table'.pc = "table") =>
        /\ (table'.last.op = "Replace" /\ Len(table'.rows) = 0) =>
               (~table'.pageIndex.Valid /\ ~table'.cursorIndex.Valid)
        /\ (table'.last.op = "Resize" /\ table'.height = 0) =>
               (~table'.pageIndex.Valid /\ ~table'.cursorIndex.Valid)
        /\ (table'.last.op = "Resize" /\ table.last.op = "Resize" /\ table.height = 0
               /\ table'.height # 0 /\ Len(table.rows) > 0) =>
               (table'.pageIndex = Index(0) /\ table'.cursorIndex = Index(0))

\* C31: the page index and the cursor index are invalid after a Replace that
\* leaves no row and after a Resize to the height 0; a Resize to 0 followed by a
\* Resize to another height, on a table with rows, leaves both indexes valid
\* and 0.
C31_InvalidThenFirstRow == [][C31_Step]_vars

\* C31: a table scrolled down was resized to the height 0 and then to another
\* height: its indexes are 0
C31_Witness ==
    /\ table.pc = "table"
    /\ table.last.op = "Resize"
    /\ table.last.amount # 0
    /\ table.last.before.op = "Resize"
    /\ ~table.last.before.cursorIndex.Valid
    /\ Len(table.rows) > 2
    /\ table.pageIndex = Index(0)
    /\ table.cursorIndex = Index(0)

(***************************************************************************)
(* utils.DepthFirstTraversal and the rows of the table                     *)
(***************************************************************************)
\* the node above the nodes of the forest: its flag traversable is set
RootID == 0

RECURSIVE PushChildren(_, _, _, _)

\* the loop of lines 54-56: the children of the node at path are pushed on
\* toBeExplored from the last to the first
PushChildren(toBeExplored, children, path, i) ==
    IF i < 1
    THEN toBeExplored
    ELSE PushChildren(Append(toBeExplored,
                             [path |-> Append(path, children[i].id),
                              node |-> children[i]]),
                      children, path, i - 1)

RECURSIVE DepthFirstLoop(_, _, _, _)

\* the loop of lines 49-60: the last node of toBeExplored is taken off, its
\* children are pushed when traverseAll is set or the node is traversable, and
\* the node is appended to explored
DepthFirstLoop(explored, toBeExplored, traversable, traverseAll) ==
    IF Len(toBeExplored) = 0
    THEN explored
    ELSE LET top == toBeExplored[Len(toBeExplored)]
             rest == SubSeq(toBeExplored, 1, Len(toBeExplored) - 1)
             pushed == IF traverseAll \/ top.node.id \in traversable
                       THEN PushChildren(rest, top.node.children, top.path,
                                         Len(top.node.children))
                       ELSE rest
         IN DepthFirstLoop(Append(explored, top.path), pushed, traversable, traverseAll)

\* every node is explored, whatever its flag
DepthFirstTraversalOfAll(nodes, traversable, traverseAll) ==
    Tail(DepthFirstLoop(<<>>, <<[path |-> <<>>, node |-> Node(RootID, nodes)]>>,
                        traversable \cup {RootID}, TRUE))

\* DepthFirstTraversal(node, traverseAll) from the node above the forest: the
\* paths of the nodes explored, the node above the forest left out
DepthFirstTraversal(nodes, traversable, traverseAll) ==
    Tail(DepthFirstLoop(<<>>, <<[path |-> <<>>, node |-> Node(RootID, nodes)]>>,
                        traversable \cup {RootID}, traverseAll))

\* the nodes strictly above the node at path all have their flag set
AncestorsTraversable(path, traversable) ==
    \A k \in 1..(Len(path) - 1) : path[k] \in traversable

\* the node at path is strictly below the node of the given id
IsBelow(path, id) == \E k \in 1..(Len(path) - 1) : path[k] = id

\* the rows of t are the nodes of its forest all of whose ancestors are
\* traversable, in the order of the depth-first traversal of the whole forest
C32_RowsAreTraversal(t) ==
    t.pc = "table" =>
        /\ t.rows = DepthFirstTraversal(t.nodes, t.traversable, FALSE)
        /\ LET all == DepthFirstTraversal(t.nodes, {}, TRUE)
               Shown(path) == AncestorsTraversable(path, t.traversable)
           IN t.rows = SelectSeq(all, Shown)

\* the forests handed to Replace where the nodes are opened and closed
OpenedForests ==
    {<<>>, Leaves(<<1, 2>>),
     <<Node(1, Leaves(<<2>>)), Node(3, Leaves(<<4>>))>>,
     <<Node(1, <<Node(2, Leaves(<<3>>))>>), Node(4, Leaves(<<5>>))>>,
     <<Node(1, <<Node(2, Leaves(<<3, 4>>)), Node(5, <<>>)>>)>>}

DoReplaceOpened ==
    /\ \E nodes \in OpenedForests : Replace(nodes)
    /\ UNCHANGED <<OutsideViews, projection>>

NextTraversable ==
    \/ DoSetTraversable
    \/ DoVerticalScroll
    \/ DoReplaceOpened

SpecTraversable == InitTable /\ [][NextTraversable]_vars

\* the set of the elements of a list
RangeOf(list) == {list[i] : i \in 1..Len(list)}

\* a step of SetTraversable
C32_Set ==
    /\ table.pc = "table"
    /\ table'.pc = "table"
    /\ table.cursorIndex.Valid
    /\ table'.last.op = "SetTraversable"

\* the path of the row of the cursor
C32_Path == table.rows[table.cursorIndex.Int + 1]

\* the node of the cursor
C32_Node == NodeOf(table.nodes, 1, NodeIDOf(C32_Path))

\* the rows shown by the step that were not shown before it
C32_Revealed == RangeOf(table'.rows) \ RangeOf(table.rows)

\* the step closes the node that the step before it opened, with the same
\* value of recursive
C32_ClosesOpened ==
    /\ C32_Set
    /\ ~table'.last.traversable
    /\ table.last.op = "SetTraversable"
    /\ table.last.traversable
    /\ table.last.recursive = table'.last.recursive

\* the step opens the node of the cursor, and not the nodes below it
C32_Opens == C32_Set /\ table'.last.traversable /\ ~table'.last.recursive

\* the step is made with the cursor on a node without children: the rows and
\* the cursor index are what they were
C32_Leaf ==
    (C32_Set /\ Len(C32_Node.children) = 0) =>
        (table'.rows = table.rows /\ table'.cursorIndex = table.cursorIndex)

\* the rows revealed are children of the node of the cursor
C32_RevealsChildren ==
    \A path \in C32_Revealed :
        /\ Len(path) = Len(C32_Path) + 1
        /\ SubSeq(path, 1, Len(C32_Path)) = C32_Path

\* C32: the rows are the nodes all of whose ancestors are traversable, in
\* depth-first order; opening the node of the cursor and closing it again
\* gives back the rows there were before; opening it without recursion reveals
\* its children only; SetTraversable on a node without children changes
\* neither the rows nor the cursor index.
C32_OpenClose ==
    [][/\ C32_RowsAreTraversal(table) /\ C32_RowsAreTraversal(table')
       /\ C32_ClosesOpened => table'.rows = table.last.rows
       /\ C32_Opens => C32_RevealsChildren
       /\ C32_Leaf]_vars

\* C32, amended: opening and closing again gives back the rows when the node
\* was closed before it was opened or has no children; opening without
\* recursion reveals the children of the node, and reveals them only when
\* none of them has its flag set from before; the rest as stated.
C32_OpenCloseFromClosed ==
    [][/\ C32_RowsAreTraversal(table) /\ C32_RowsAreTraversal(table')
       /\ (C32_ClosesOpened /\ (~table.last.was \/ Len(C32_Node.children) = 0)) =>
              table'.rows = table.last.rows
       /\ C32_Opens =>
              /\ \A i \in 1..Len(C32_Node.children) :
                     Append(C32_Path, C32_Node.children[i].id) \in RangeOf(table'.rows)
              /\ \A path \in C32_Revealed : IsBelow(path, NodeIDOf(C32_Path))
              /\ (\A i \in 1..Len(C32_Node.children) :
                      C32_Node.children[i].id \notin table.traversable) =>
                     C32_RevealsChildren
       /\ C32_Leaf]_vars

\* C32: a node that was closed was opened with the nodes below it and closed
\* again, and the rows are what they were before
C32_Witness ==
    /\ table.pc = "table"
    /\ table.last.op = "SetTraversable"
    /\ table.last.follows
    /\ table.last.recursive
    /\ ~table.last.was
    /\ Len(NodeOf(table.nodes, 1, table.last.before.node).children) > 0
    /\ Len(table.last.rows) > 1
    /\ table.rows = table.last.rows

(***************************************************************************)
(* tui.HierarchicalTable: ScrollToNextMatch                                *)
(***************************************************************************)
\* a % b of Go, for b > 0: the remainder has the sign of a
Remainder(a, b) == IF a >= 0 THEN a % b ELSE 0 - ((0 - a) % b)

\* utils.Modulo(a, b)
Modulo(a, b) ==
    LET r == Remainder(a, b)
    IN IF r < 0 THEN r + b ELSE r

\* the text of the column of the node id, letter by letter
ColumnText(id) ==
    CASE id = 1 -> <<"a">>
      [] id = 2 -> <<"a", "b">>
      [] id = 3 -> <<"b", "c">>
      [] id = 4 -> <<"c">>
      [] OTHER -> <<"a", "b", "c">>

\* the needles handed to ScrollToNextMatch
Needles == {<<>>, <<"a">>, <<"c">>, <<"b", "c">>, <<"c", "a">>}

\* strings.Contains(text, needle)
Contains(text, needle) ==
    \E i \in 0..(Len(text) - Len(needle)) : SubSeq(text, i + 1, i + Len(needle)) = needle

\* the rows after the cursor, or before it, up to the end of the table and no
\* further
CandidatesWithoutWrapping(n, cursor, forward) ==
    IF forward
    THEN [k \in 1..(n - 1 - cursor) |-> cursor + k]
    ELSE [k \in 1..cursor |-> cursor - k]

\* the indexes of the rows in the order in which they are searched: from the
\* row after the cursor, or before it, round the table and back to the cursor
Candidates(n, cursor, forward) ==
    [k \in 1..n |-> Modulo(cursor + (IF forward THEN k ELSE 0 - k), n)]

\* the index of the first row searched whose text contains needle, -1 when
\* there is none
NextMatch(rows, cursor, needle, forward) ==
    LET order == Candidates(Len(rows), cursor, forward)
        Matches(k) == Contains(ColumnText(NodeIDOf(rows[order[k] + 1])), needle)
    IN IF \E k \in 1..Len(order) : Matches(k)
       THEN order[CHOOSE k \in 1..Len(order) :
                      Matches(k) /\ \A j \in 1..(k - 1) : ~Matches(j)]
       ELSE 0 - 1

\* ScrollToNextMatch(needle, forward): false on a table without rows or without
\* a row that matches; otherwise the cursor goes to the match, the page shows it
ScrollToNextMatch(needle, forward) ==
    /\ table.pc = "table"
    /\ LET n == Len(table.rows)
           match == IF n = 0 \/ ~table.cursorIndex.Valid
                    THEN 0 - 1
                    ELSE NextMatch(table.rows, table.cursorIndex.Int, needle, forward)
           applied == [op |-> "ScrollToNextMatch", amount |-> 0, same |-> TRUE,
                       before |-> [pageIndex |-> table.pageIndex,
                                   cursorIndex |-> table.cursorIndex, node |-> 0,
                                   op |-> "none"],
                       needle |-> needle, forward |-> forward, found |-> match >= 0]
       IN IF match < 0
          THEN table' = [table EXCEPT !.last = applied]
          ELSE table' = [table EXCEPT
                             !.cursorIndex = Index(match),
                             !.pageIndex = Index(PageShowing(table.pageIndex.Int, match,
                                                             n, table.height)),
                             !.last = applied]

\* the forests handed to Replace where the table is searched
SearchedForests ==
    {<<>>, Leaves(<<1>>), Leaves(<<1, 2, 3, 4, 5>>), Leaves(<<4, 1, 3>>),
     <<Node(1, Leaves(<<2>>)), Node(3, Leaves(<<4>>))>>}

DoReplaceSearched ==
    /\ \E nodes \in SearchedForests : Replace(nodes)
    /\ UNCHANGED <<OutsideViews, projection>>

DoScrollToNextMatch ==
    /\ \E needle \in Needles, forward \in BOOLEAN : ScrollToNextMatch(needle, forward)
    /\ UNCHANGED <<OutsideViews, projection>>

NextSearch ==
    \/ DoScrollToNextMatch
    \/ DoReplaceSearched
    \/ DoSetTraversable
    \/ DoVerticalScroll

SpecSearch == InitTable /\ [][NextSearch]_vars

\* the indexes of the rows of the table whose text contains needle
C33_Matches(needle) ==
    {i \in 0..(Len(table.rows) - 1) :
         Contains(ColumnText(NodeIDOf(table.rows[i + 1])), needle)}

\* how many rows the search passes to reach row i from the cursor, the row of
\* the cursor coming last
C33_Steps(i, forward) ==
    LET n == Len(table.rows)
        d == IF forward
             THEN (i - table.cursorIndex.Int + n) % n
             ELSE (table.cursorIndex.Int - i + n) % n
    IN IF d = 0 THEN n ELSE d

\* a step of ScrollToNextMatch: false and nothing moved when no row of the
\* table matches; otherwise true and the cursor on the match that the search
\* reaches first
C33_Step ==
    (table.pc = "table" /\ table'.pc = "table" /\ table'.last.op = "ScrollToNextMatch") =>
        LET needle == table'.last.needle
            forward == table'.last.forward
        IN /\ table'.rows = table.rows
           /\ IF C33_Matches(needle) = {}
              THEN /\ ~table'.last.found
                   /\ table'.cursorIndex = table.cursorIndex
                   /\ table'.pageIndex = table.pageIndex
              ELSE /\ table'.last.found
                   /\ table'.cursorIndex.Valid
                   /\ table'.cursorIndex.Int \in C33_Matches(needle)
                   /\ \A i \in C33_Matches(needle) :
                          C33_Steps(table'.cursorIndex.Int, forward)
                              <= C33_Steps(i, forward)

SortedForests ==
    {<<>>, Leaves(<<1, 2, 3>>), Leaves(<<1, 4, 3, 2>>),
     <<Node(3, <<Node(5, Leaves(<<2, 1>>)), Node(4, <<>>)>>)>>,
     <<Node(2, Leaves(<<5, 4>>)), Node(3, <<>>), Node(1, <<>>)>>}

DoReplaceSorted ==
    /\ \E nodes \in SortedForests : Replace(nodes)
    /\ UNCHANGED <<OutsideViews, projection>>

DoSortBy ==
    /\ \E column \in Columns, ascending \in BOOLEAN : SortBy(column, ascending)
    /\ UNCHANGED <<OutsideViews, projection>>

NextSort ==
    \/ DoSortBy
    \/ DoReplaceSorted
    \/ DoSetTraversable

SpecSort == InitTable /\ [][NextSort]_vars

RECURSIVE InOrder(_, _)

\* the nodes, and the children of each of them at every level, follow one
\* another as the comparator of the column and the direction of the order ask
InOrder(nodes, order) ==
    /\ \A i, j \in 1..Len(nodes) :
           i < j => IF order.ascending
                    THEN Compare(nodes[i], nodes[j], order.column) <= 0
                    ELSE Compare(nodes[i], nodes[j], order.column) >= 0
    /\ \A i \in 1..Len(nodes) : InOrder(nodes[i].children, order)

RECURSIVE SameNodes(_, _)

\* the two forests have the same nodes under the same parents, in whatever
\* order
SameNodes(nodes, others) ==
    /\ Len(nodes) = Len(others)
    /\ \A i \in 1..Len(nodes) :
           \E j \in 1..Len(others) :
               /\ others[j].id = nodes[i].id
               /\ SameNodes(nodes[i].children, others[j].children)

\* C34: before any SortBy the forest and its rows are in the order in which
\* the nodes were supplied; from a SortBy on, and after every Replace that
\* follows, the nodes supplied last are shown with the children of every node,
\* at every level, in the order of the last SortBy.
C34_OrderStaysInForce ==
    table.pc = "table" =>
        /\ table.rows = VisiblePaths(table.nodes, 1, <<>>, table.traversable)
        /\ SameNodes(table.nodes, table.loaded)
        /\ IF table.order = NoOrder
           THEN table.nodes = table.loaded
           ELSE InOrder(table.nodes, table.order)

\* C34: a forest supplied in another order was loaded after a SortBy, and its
\* rows show a node and its children in the order of the SortBy
C34_Witness ==
    /\ table.pc = "table"
    /\ table.last.op = "Replace"
    /\ table.last.before.op = "SortBy"
    /\ table.order = [column |-> "column1", ascending |-> TRUE]
    /\ table.loaded = <<Node(2, Leaves(<<5, 4>>)), Node(3, <<>>), Node(1, <<>>)>>
    /\ table.rows = <<<<1>>, <<2>>, <<2, 4>>, <<2, 5>>, <<3>>>>

RECURSIVE ReverseForest(_)

\* the forest with the nodes in the reverse order, at every level
ReverseForest(nodes) ==
    [i \in 1..Len(nodes) |->
        Node(nodes[Len(nodes) + 1 - i].id,
             ReverseForest(nodes[Len(nodes) + 1 - i].children))]

RECURSIVE NoTies(_, _)

\* no two nodes with the same parent compare equal on the column
NoTies(nodes, column) ==
    /\ \A i, j \in 1..Len(nodes) : i # j => Compare(nodes[i], nodes[j], column) # 0
    /\ \A i \in 1..Len(nodes) : NoTies(nodes[i].children, column)

\* the index of the node of the given id among nodes
PlaceOf(nodes, id) == CHOOSE i \in 1..Len(nodes) : nodes[i].id = id

RECURSIVE TiesKeepOrder(_, _, _)

\* the nodes of before that have the same parent and compare equal on the
\* column follow one another in after as they do in before, at every level
TiesKeepOrder(before, after, column) ==
    /\ \A i, j \in 1..Len(before) :
           (i < j /\ Compare(before[i], before[j], column) = 0) =>
               PlaceOf(after, before[i].id) < PlaceOf(after, before[j].id)
    /\ \A i \in 1..Len(before) :
           TiesKeepOrder(before[i].children,
                         after[PlaceOf(after, before[i].id)].children, column)

\* a step of SortBy descending on the column the table is sorted by, ascending
C35_Descending ==
    /\ table.pc = "table"
    /\ table'.pc = "table"
    /\ table'.last.op = "SortBy"
    /\ table.order # NoOrder
    /\ table.order.ascending
    /\ table'.order = [column |-> table.order.column, ascending |-> FALSE]

\* C35: sorting descending a forest sorted ascending on the same column gives,
\* at every level, the siblings in the exact reverse of their ascending order,
\* also when some of them compare equal.
C35_DescendingIsReverse ==
    [][C35_Descending => table'.nodes = ReverseForest(table.nodes)]_vars

\* C35, amended: the descending order is the reverse of the ascending one at
\* every level when no two siblings compare equal on the column; siblings that
\* compare equal keep, in both directions, the order they had.
C35_DescendingIsReverseWithoutTies ==
    [][C35_Descending =>
           /\ NoTies(table.nodes, table.order.column) =>
                  table'.nodes = ReverseForest(table.nodes)
           /\ InOrder(table'.nodes, table'.order)
           /\ TiesKeepOrder(table.nodes, table'.nodes, table.order.column)]_vars

\* C35: a nested forest sorted ascending was sorted descending on the same
\* column, on which no two siblings compare equal, and every level is reversed
C35_Witness ==
    /\ table.pc = "table"
    /\ table.last.op = "SortBy"
    /\ table.last.order = [column |-> "column1", ascending |-> TRUE]
    /\ table.order = [column |-> "column1", ascending |-> FALSE]
    /\ table.nodes = <<Node(3, <<Node(5, Leaves(<<2, 1>>)), Node(4, <<>>)>>)>>

(***************************************************************************)
(* cache.go: monitorRefStatuses, poll by poll                              *)
(***************************************************************************)
\* the status URLs in the order of sort.Strings: '-' comes before 'p'
SortedURLs == <<"gitlab.com/nbedos/citop/-/jobs/7", "gitlab.com/nbedos/citop/pipelines/42">>

URLRank(u) == CHOOSE i \in 1..Len(SortedURLs) : SortedURLs[i] = u

\* a []string is nil, or a slice with its elements
NilStrings == [nil |-> TRUE, urls |-> <<>>]

Strings(urls) == [nil |-> FALSE, urls |-> urls]

StringSlices == {NilStrings} \cup {Strings(urls) : urls \in StatusLists}

\* the elements of a slice, whatever their order and their number
SetOf(slice) == {slice.urls[i] : i \in 1..Len(slice.urls)}

RECURSIVE InsertURL(_, _)
InsertURL(u, urls) ==
    IF urls = <<>> THEN <<u>>
    ELSE IF URLRank(u) <= URLRank(Head(urls)) THEN <<u>> \o urls
    ELSE <<Head(urls)>> \o InsertURL(u, Tail(urls))

RECURSIVE SortURLs(_)
SortURLs(urls) ==
    IF urls = <<>> THEN <<>> ELSE InsertURL(Head(urls), SortURLs(Tail(urls)))

\* line 82, sort.Strings(statuses): a nil slice stays nil
SortStrings(slice) == [slice EXCEPT !.urls = SortURLs(@)]

\* line 83, len(cmp.Diff(statuses, commit.Statuses)) > 0: cmp holds two slices
\* for equal when both are nil or both are not, with equal elements in order
Differ(statuses, other) ==
    \/ statuses.nil # other.nil
    \/ statuses.urls # other.urls

\* no poll was made yet
NoPoll == [polled |-> FALSE]

\* lines 57-60: p.Commit returns the commit with these statuses, or e
MonitorCommitReturns(statuses, e) ==
    /\ refMonitor.pc = "Commit"
    /\ IF e # NilErr
       THEN refMonitor' = [refMonitor EXCEPT !.pc = "returned", !.err = e]
       ELSE refMonitor' = [refMonitor EXCEPT !.pc = "commitc", !.Statuses = statuses]

\* lines 61-63 and 86-92: the commit is received on commitc; after a poll the
\* backoff is reset, and the loop draws the next wait time from it (line 68)
MonitorCommitReceived ==
    /\ refMonitor.pc = "commitc"
    /\ refMonitor' =
          [refMonitor EXCEPT
              !.pc = "wait",
              !.sent = @ \o <<refMonitor.Statuses>>,
              !.resets = IF refMonitor.last.polled THEN @ + 1 ELSE @,
              !.backoff = IF refMonitor.last.polled THEN 1 ELSE @,
              !.last = IF refMonitor.last.polled
                       THEN [@ EXCEPT !.sent = TRUE, !.reset = TRUE]
                       ELSE @]

\* lines 64-65, 72-73 and 89-90: the context is done
MonitorContextDone ==
    /\ refMonitor.pc \in {"commitc", "wait"}
    /\ refMonitor.ctxDone
    /\ refMonitor' = [refMonitor EXCEPT !.pc = "returned", !.err = ContextCanceled]

\* lines 70-71: the wait time is over
MonitorTimeAfter ==
    /\ refMonitor.pc = "wait"
    /\ refMonitor' = [refMonitor EXCEPT !.pc = "RefStatuses"]

\* lines 76-85 and 93, 68: p.RefStatuses returns statuses, or e
MonitorPolled(statuses, e) ==
    /\ refMonitor.pc = "RefStatuses"
    /\ refMonitor.polls < MaxPolls
    /\ IF e # NilErr
       THEN refMonitor' = [refMonitor EXCEPT !.pc = "returned",
                                             !.err = WrapRefStatuses(1, e),
                                             !.polls = @ + 1]
       ELSE LET sorted == SortStrings(statuses)
                differ == Differ(sorted, refMonitor.Statuses)
                last == [polled |-> TRUE, statuses |-> statuses,
                         before |-> refMonitor.Statuses, differ |-> differ,
                         sent |-> FALSE, reset |-> FALSE]
            IN refMonitor' =
                  [refMonitor EXCEPT
                      !.pc = IF differ THEN "commitc" ELSE "wait",
                      !.Statuses = IF differ THEN sorted ELSE @,
                      !.backoff = IF differ THEN @ ELSE @ + 1,
                      !.polls = @ + 1,
                      !.last = last]

\* the caller cancels the context
MonitorCancel ==
    /\ refMonitor.pc \notin {"returned"}
    /\ ~refMonitor.ctxDone
    /\ refMonitor' = [refMonitor EXCEPT !.ctxDone = TRUE]

(***************************************************************************)
(* SpecStatuses: one call of monitorRefStatuses                            *)
(***************************************************************************)
\* what RefStatuses and Commit can return
PollResults ==
    {NilErr, ErrUnknownRepositoryURL, ErrProvider}
    \cup (IF refMonitor.ctxDone THEN {ContextCanceled} ELSE {})

\* line 55, b.Reset(): backoff counts the wait times drawn since the last reset
InitStatuses ==
    /\ InitCache
    /\ IdleAgg
    /\ IdleBroadcast
    /\ IdleRefStatus
    /\ IdlePoller
    /\ IdleMonitor
    /\ IdleLocks
    /\ IdleRace
    /\ IdleTimeline
    /\ IdleMemory
    /\ IdleProjection
    /\ IdleTable
    /\ lastSaved = EmptyMap
    /\ refMonitor = [pc |-> "Commit", Statuses |-> NilStrings, ctxDone |-> FALSE,
                     err |-> NilErr, sent |-> <<>>, resets |-> 1, backoff |-> 0,
                     polls |-> 0, last |-> NoPoll]

OutsideStatuses ==
    <<cacheVars, aggVars, broadcastVars, refVars, pollVars, monVars, lockVars, race,
      timeline, memory, projection, table, lastSaved>>

DoMonitorCommitReturns ==
    /\ \E statuses \in StringSlices, e \in PollResults : MonitorCommitReturns(statuses, e)
    /\ UNCHANGED OutsideStatuses

DoMonitorCommitReceived == MonitorCommitReceived /\ UNCHANGED OutsideStatuses

DoMonitorContextDone == MonitorContextDone /\ UNCHANGED OutsideStatuses

DoMonitorTimeAfter == MonitorTimeAfter /\ UNCHANGED OutsideStatuses

DoMonitorPolled ==
    /\ \E statuses \in StringSlices, e \in PollResults : MonitorPolled(statuses, e)
    /\ UNCHANGED OutsideStatuses

DoMonitorCancel == MonitorCancel /\ UNCHANGED OutsideStatuses

NextStatuses ==
    \/ DoMonitorCommitReturns
    \/ DoMonitorCommitReceived
    \/ DoMonitorContextDone
    \/ DoMonitorTimeAfter
    \/ DoMonitorPolled
    \/ DoMonitorCancel

SpecStatuses == InitStatuses /\ [][NextStatuses]_vars

(***************************************************************************)
(* Properties of monitorRefStatuses (SpecStatuses)                         *)
(***************************************************************************)
\* the last poll returned no error
C36_Polled == refMonitor.pc # "idle" /\ refMonitor.last.polled

\* the commit goes to commitc after a poll exactly when the sorted list differs
\* from the statuses of the commit, which the sorted list then replaces
C36_EmitsWhenDiffers ==
    C36_Polled =>
       LET last == refMonitor.last
           sorted == SortStrings(last.statuses)
       IN /\ last.differ <=> Differ(sorted, last.before)
          /\ last.sent => last.differ /\ refMonitor.sent[Len(refMonitor.sent)] = sorted
          /\ (last.differ /\ ~last.sent) => refMonitor.pc \in {"commitc", "returned"}
          /\ refMonitor.Statuses = (IF last.differ THEN sorted ELSE last.before)

\* a poll that returns the URLs of the commit, in any order, sends nothing
C36_SameSetNoEmission ==
    (C36_Polled /\ SetOf(refMonitor.last.statuses) = SetOf(refMonitor.last.before))
       => ~refMonitor.last.differ

\* the backoff is reset at line 55 and after every commit sent by a poll, and
\* at no other place
C36_ResetOnlyOnEmission ==
    refMonitor.pc # "idle" =>
       /\ Len(refMonitor.sent) <= 1 => refMonitor.resets = 1
       /\ Len(refMonitor.sent) >= 1 => refMonitor.resets = Len(refMonitor.sent)
       /\ C36_Polled => (refMonitor.last.reset <=> refMonitor.last.sent)

\* C36: monitorRefStatuses fetches the commit once and sends it, then on every
\* poll sorts the URLs returned and sends the commit again, with the sorted
\* list for statuses, exactly when that list differs from the statuses of the
\* commit sent last; a poll that returns the same set of URLs in any order
\* sends nothing, and only a poll that sent a commit resets the backoff.
C36_MonitorRefStatuses ==
    /\ C36_EmitsWhenDiffers
    /\ C36_SameSetNoEmission
    /\ C36_ResetOnlyOnEmission

\* C36 (the case found): the commit came without statuses (a nil slice), the
\* poll returned an empty list, and the same commit was sent a second time
C36_Witness ==
    /\ C36_Polled
    /\ refMonitor.last.before = NilStrings
    /\ refMonitor.last.statuses = Strings(<<>>)
    /\ refMonitor.last.sent
    /\ refMonitor.last.reset
    /\ Len(refMonitor.sent) = 2

(***************************************************************************)
(* Properties of SavePipeline and SaveCommit, continued (Spec)             *)
(***************************************************************************)
\* what the index of ref gives for key: the value and whether it exists
PipelineByRefIn(m, ref, key) ==
    IF ref \in DOMAIN m.pipelineByRef /\ key \in DOMAIN m.pipelineByRef[ref]
    THEN [pipeline |-> m.pipelineByRef[ref][key].val, exists |-> TRUE]
    ELSE [pipeline |-> NoPipeline, exists |-> FALSE]

\* the call changed what the cache returns for the key or for the key under ref
C37_Changed(ref, k) ==
    \/ PipelineIn(Maps', k) # PipelineIn(Maps, k)
    \/ PipelineByRefIn(Maps', ref, k) # PipelineByRefIn(Maps, ref, k)

\* the pipeline is active and equal to the pipeline the cache returns for its
\* key, and for its key under ref
C37_SameActive(ref, p) ==
    /\ IsActive(p.State)
    /\ PipelineIn(Maps, Key(p)) = [pipeline |-> p, exists |-> TRUE]
    /\ PipelineByRefIn(Maps, ref, Key(p)) = [pipeline |-> p, exists |-> TRUE]

\* the pipeline is obsolete, and the index of ref holds for its key another
\* object than the store, with the same value
C37_SameElsewhere(ref, p) ==
    /\ IsObsolete(p)
    /\ ~HeldBy(pipelineByKey, pipelineByRef, ref, Key(p))
    /\ PipelineByRefIn(Maps, ref, Key(p)) = PipelineIn(Maps, Key(p))

C37_Original_Step ==
    (SavePipelineStep /\ lastCall'.err = NilErr) =>
       C37_Changed(lastCall'.ref, Key(lastCall'.pipeline))

C37_Step ==
    LET ref == lastCall'.ref
        p == lastCall'.pipeline
        same == C37_SameActive(ref, p) \/ C37_SameElsewhere(ref, p)
    IN SavePipelineStep =>
          /\ (lastCall'.err = NilErr /\ ~same) => C37_Changed(ref, Key(p))
          /\ same => (lastCall'.err = NilErr /\ ~C37_Changed(ref, Key(p)))
          /\ C37_SameActive(ref, p) => pipelineByKey'[Key(p)] # pipelineByKey[Key(p)]

C38_IndexHoldsCurrentEntries ==
    \A ref \in DOMAIN pipelineByRef :
       \A k \in DOMAIN pipelineByRef[ref] :
          /\ Pipeline(k).exists
          /\ PipelineByRefIn(Maps, ref, k).pipeline = Pipeline(k).pipeline
          /\ \A p \in PipelinesByRef(ref) : Key(p) = k => p = Pipeline(k).pipeline

\* C38 (the case found): a pipeline was saved under one ref while running and
\* then under another ref once passed; the first ref still lists it as running
C38_Witness ==
    /\ lastCall.op = "SavePipeline"
    /\ lastCall.err = NilErr
    /\ lastCall.pipeline.State = Passed
    /\ Pipeline(Key(lastCall.pipeline)).pipeline = lastCall.pipeline
    /\ \E ref \in DOMAIN pipelineByRef \ {lastCall.ref} :
          LET listed == PipelineByRefIn(Maps, ref, Key(lastCall.pipeline))
          IN /\ listed.exists
             /\ listed.pipeline.State = Running
             /\ listed.pipeline.UpdatedAt < lastCall.pipeline.UpdatedAt

(***************************************************************************)
(* SpecShas: SaveCommit and SavePipeline, with the sha of the commit saved *)
(* last for each ref                                                       *)
(***************************************************************************)
\* SaveCommit(ref, commit), and what it did for ref
SaveCommitOf(ref, commit) ==
    /\ SaveCommit(ref, commit)
    /\ lastSaved' =
          MapPut(lastSaved, ref,
                 [Sha |-> commit.Sha,
                  again |-> ref \in DOMAIN lastSaved /\ lastSaved[ref].Sha = commit.Sha,
                  dropped |-> /\ PipelinesByRef(ref) # {}
                              /\ PipelinesByRefIn(Maps', ref) = {}])

InitShas ==
    /\ InitCache
    /\ IdleAgg
    /\ IdleBroadcast
    /\ IdleRefStatus
    /\ IdlePoller
    /\ IdleMonitor
    /\ IdleLocks
    /\ IdleRace
    /\ IdleTimeline
    /\ IdleMemory
    /\ IdleProjection
    /\ IdleTable
    /\ refMonitor = [pc |-> "idle"]
    /\ lastSaved = EmptyMap

OutsideShas ==
    <<aggVars, broadcastVars, refVars, pollVars, monVars, lockVars, race, timeline,
      memory, projection, table, refMonitor>>

DoSaveCommitOf ==
    /\ \E ref \in Refs, c \in CommitInputs : SaveCommitOf(ref, c)
    /\ UNCHANGED OutsideShas

\* the pipelines saved are the finished ones
DoSavePipelineOf ==
    /\ \E ref \in Refs, p \in PipelineInputs : p.State # Running /\ SavePipeline(ref, p)
    /\ UNCHANGED <<OutsideShas, lastSaved>>

NextShas ==
    \/ DoSaveCommitOf
    \/ DoSavePipelineOf

SpecShas == InitShas /\ [][NextShas]_vars

C39_Step ==
    LET ref == lastCall'.ref
        c == lastCall'.commit
    IN SaveCommitStep =>
          /\ ref \in DOMAIN commitsByRef'
          /\ commitsByRef'[ref].Sha = c.Sha
          /\ (ref \in DOMAIN lastSaved /\ lastSaved[ref].Sha = c.Sha) =>
                PipelinesByRefIn(Maps', ref) = PipelinesByRef(ref)

\* C39: after SaveCommit(ref, c) the commit returned by Commit(ref) has the sha
\* of c, and a following SaveCommit for the same ref with the same sha does not
\* drop the pipelines of ref.
C39_LastShaIsStored == [][C39_Step]_vars

\* C39 (the case found): a ref was given a commit with the sha of the commit it
\* was given before; its pipelines were dropped, and the commit returned for
\* the ref has another sha
C39_Witness ==
    /\ lastCall.op = "SaveCommit"
    /\ lastSaved[lastCall.ref].again
    /\ lastSaved[lastCall.ref].dropped
    /\ Commit(lastCall.ref).commit.Sha # lastCall.commit.Sha
    /\ PipelinesByRef(lastCall.ref) = {}

(***************************************************************************)
(* Properties of monitorPipeline, continued (SpecPoller)                   *)
(***************************************************************************)
\* every save of an active pipeline returned nil
C40_ActiveSavesAccepted ==
    \A i \in 1..Len(poller.saves) :
       IsActive(poller.fetches[i].State) => poller.saves[i] = NilErr

====
